---------------------------- MODULE Spec2Model ----------------------------
(***************************************************************************)
(* Model of the migration pipeline of src/dashboard/migration_engine.py:   *)
(* the manifest on disk, the sibling artifacts the phase gates read, the   *)
(* git tags and checkpoint metadata, the per-object lock of each           *)
(* MigrationPipeline, and the position of every calling thread inside      *)
(* start_phase, advance_phase, create_checkpoint and                       *)
(* rollback_to_checkpoint; the repository the checkpoints tag; the steps  *)
(* of one _atomic_write call; the entries of the migrations root that     *)
(* load and list_migrations read; and the report of get_progress.         *)
(***************************************************************************)
EXTENDS Integers, Sequences, FiniteSets, TLC

VARIABLES
    manifest,   \* manifest.json on disk, or NoManifest
    docs,       \* the docs/ directory: "absent", "empty" or "nonempty"
    seams,      \* seams.json on disk (a document)
    features,   \* features.json on disk (a document)
    plan,       \* migration-plan.json on disk (a document)
    tags,       \* step ids s whose tag loki-migrate/<s>/pre exists in the repository
    meta,       \* step ids s whose checkpoints/<s>.json exists
    objs,       \* the MigrationPipeline objects that exist for this migration_id
    lock,       \* lock[o]: the thread holding o._lock, or NoThread
    th,         \* th[t]: where thread t is inside its current call
    clock,      \* the wall clock _timestamp_iso() reads
    last,       \* the call that returned last: arguments, outcome, manifest before/after
    done,       \* step ids whose create_checkpoint returned its tag name
    probe,      \* the verdicts of the last gate inspection (both gate paths)
    repo,       \* the codebase repository: head commit, commits made, dirty tree, tag targets
    broken,     \* what currently fails: "disk" (writes under the migration dir), "git"
    aw,         \* one _atomic_write call: its position, the target file, its temp file
    root,       \* the other entries of the migrations root, by name
    report      \* what the last get_progress, list_migrations or load call gave

vars == <<manifest, docs, seams, features, plan, tags, meta, objs, lock, th,
          clock, last, done, probe, repo, broken, aw, root, report>>

-----------------------------------------------------------------------------
(* Bounds of the model *)

\* the clock stops advancing at MaxClock
MaxClock == 2

\* the longest feature list / step list an artifact holds in SpecGate
MaxItems == 2

\* the commits the repository holds at most
MaxCommits == 3

\* the longest feature list features.json holds in SpecFeatures
MaxFeatures == 6

\* the longest step list migration-plan.json holds in SpecPlan
MaxSteps == 6

Threads == {"t1", "t2"}
NoThread == "nobody"

\* "ctor" is the object built by __init__, "loaded" the one returned by load()
Objects == {"ctor", "loaded"}

-----------------------------------------------------------------------------
(* Phases and the manifest *)

PHASE_ORDER == <<"understand", "guardrail", "migrate", "verify">>

Phases == {PHASE_ORDER[i] : i \in 1..Len(PHASE_ORDER)}

\* the phase arguments callers pass: the four phases and an unknown name
PhaseArgs == Phases \cup {"deploy"}

None == "None"

\* PHASE_ORDER.index(phase), 1-based
PhaseIndex(phase) == CHOOSE i \in 1..Len(PHASE_ORDER) : PHASE_ORDER[i] = phase

\* next_phase of advance_phase: the successor in PHASE_ORDER, or None
NextPhase(phase) ==
    IF PhaseIndex(phase) + 1 <= Len(PHASE_ORDER)
    THEN PHASE_ORDER[PhaseIndex(phase) + 1]
    ELSE None

\* manifest.json does not exist
NoManifest ==
    [exists      |-> FALSE,
     created_at  |-> 0,
     phases      |-> [phase \in Phases |->
                        [status |-> "absent", started_at |-> 0, completed_at |-> 0]],
     checkpoints |-> <<>>]

\* the tag name create_checkpoint derives from a step id
TagName(step_id) == <<"loki-migrate", step_id, "pre">>

\* create_manifest with no phase started
InitialManifestAllPending(now) ==
    [exists      |-> TRUE,
     created_at  |-> now,
     phases      |-> [phase \in Phases |->
                        [status |-> "pending", started_at |-> 0, completed_at |-> 0]],
     checkpoints |-> <<>>]

\* The manifest create_manifest builds; timestamps are clock readings, "" is 0
InitialManifest(now) ==
    [exists      |-> TRUE,
     created_at  |-> now,
     phases      |-> [phase \in Phases |->
                        [status       |-> IF phase = "understand"
                                          THEN "in_progress" ELSE "pending",
                         started_at   |-> IF phase = "understand" THEN now ELSE 0,
                         completed_at |-> 0]],
     checkpoints |-> <<>>]

\* an operation's outcome on a loaded manifest: the exception it raises (or None),
\* whether it saves, and the manifest it saves
Outcome(raised, wrote, m) == [raised |-> raised, wrote |-> wrote, manifest |-> m]

\* start_phase without the early return for a phase already in_progress
StartPhaseRestamp(m, phase, now) ==
    IF m.phases[phase].status \notin {"pending", "in_progress"}
    THEN Outcome("RuntimeError", FALSE, m)
    ELSE Outcome(None, TRUE,
                 [m EXCEPT !.phases[phase].status = "in_progress",
                           !.phases[phase].started_at = now])

\* start_phase without the test that the phase is pending
StartPhaseAnyStatus(m, phase, now) ==
    IF m.phases[phase].status = "in_progress" THEN Outcome(None, FALSE, m)
    ELSE Outcome(None, TRUE,
                 [m EXCEPT !.phases[phase].status = "in_progress",
                           !.phases[phase].started_at = now])

\* start_phase after the manifest is loaded
StartPhase(m, phase, now) ==
    LET current_status == m.phases[phase].status IN
    IF current_status = "in_progress" THEN Outcome(None, FALSE, m)
    ELSE IF current_status # "pending" THEN Outcome("RuntimeError", FALSE, m)
    ELSE Outcome(None, TRUE,
                 [m EXCEPT !.phases[phase].status = "in_progress",
                           !.phases[phase].started_at = now])

\* advance_phase without the test that the phase is in_progress
AdvancePhaseUnchecked(m, phase, now) ==
    LET next_phase == NextPhase(phase)
        completed  == [m EXCEPT !.phases[phase].status = "completed",
                                !.phases[phase].completed_at = now]
    IN
    IF next_phase = None THEN Outcome(None, TRUE, completed)
    ELSE Outcome(None, TRUE,
                 [completed EXCEPT !.phases[next_phase].status = "in_progress",
                                   !.phases[next_phase].started_at = now])

\* advance_phase saving `completed` before it starts the successor
AdvancePhaseSplit(m, phase, now) ==
    IF m.phases[phase].status # "in_progress" THEN Outcome("RuntimeError", FALSE, m)
    ELSE Outcome(None, TRUE,
                 [m EXCEPT !.phases[phase].status = "completed",
                           !.phases[phase].completed_at = now])

\* advance_phase after the gate passed and the manifest is loaded
AdvancePhase(m, phase, now) ==
    LET next_phase == NextPhase(phase)
        completed  == [m EXCEPT !.phases[phase].status = "completed",
                                !.phases[phase].completed_at = now]
    IN
    IF m.phases[phase].status # "in_progress" THEN Outcome("RuntimeError", FALSE, m)
    ELSE IF next_phase = None THEN Outcome(None, TRUE, completed)
    ELSE Outcome(None, TRUE,
                 [completed EXCEPT !.phases[next_phase].status = "in_progress",
                                   !.phases[next_phase].started_at = now])

\* create_checkpoint's manifest update
AppendCheckpoint(m, step_id) ==
    [m EXCEPT !.checkpoints = Append(@, TagName(step_id))]

-----------------------------------------------------------------------------
(* The artifacts and the phase gates *)

\* A JSON artifact on disk: what kind of document the file holds, and the
\* items of its list when it holds one.
\*   features.json: "absent"; "badjson" (not JSON); "scalar" (a number or null);
\*     "nondict_item" (a list holding a non-object); "missing_id" (an object
\*     without id); "list" (the canonical flat list); "wrapped" ({"features": [..]});
\*     "nokey" (an object without the features key)
\*   migration-plan.json: "absent"; "badjson"; "nonobject" (top level is no object);
\*     "steps_scalar" (steps is a number or null); "nondict_item"; "missing_id";
\*     "plan" (an object with a steps list); "nosteps" (an object without steps)
Doc(kind, items) == [kind |-> kind, items |-> items]

Absent == Doc("absent", <<>>)

\* the result of reading an artifact: the exception raised (or None) and the items
Parsed(raised, items) == [raised |-> raised, items |-> items]

\* a construction that keeps every key of the item
FromDictKeepAll(item, defaults) == item

\* Feature(**{k: v for k, v in f.items() if k in _feature_fields}) and its
\* siblings: the object built from one item of a document, unknown keys
\* dropped and a missing field taking the dataclass default
FromDict(item, defaults) ==
    [k \in {"id"} \cup DOMAIN defaults |->
        IF k \in DOMAIN item THEN item[k] ELSE defaults[k]]

\* a list value and a tuple value holding the same elements
ListOf(items) == [type |-> "list", items |-> items]

TupleOf(items) == [type |-> "tuple", items |-> items]

\* the defaults of Feature, MigrationStep and SeamInfo
FeatureDefaults == [passes |-> FALSE]

StepDefaults == [status |-> "pending"]

SeamDefaults == [files |-> ListOf(<<>>)]

\* json.dumps of one field of an item: a tuple is written as an array, which
\* json.loads reads as a list; every other value is written as it is
JsonValue(k, value) == IF k = "files" THEN ListOf(value.items) ELSE value

\* json.dumps([asdict(x) for x in items]) as the document items it yields
Serialized(items) ==
    [i \in 1..Len(items) |-> [k \in DOMAIN items[i] |-> JsonValue(k, items[i][k])]]

\* the typed list built from the items of a document
TypedList(items, defaults) == [i \in 1..Len(items) |-> FromDict(items[i], defaults)]

\* `not f.passes` tests the truth value of whatever JSON value the item
\* holds: false, null, 0 and the empty string count as false, all else as true
Truthy(value) == value \notin {"false", "null", "0", "\"\""}

\* the body of load_features: read, unwrap, build Feature objects
ParseFeatures(doc) ==
    CASE doc.kind = "absent"       -> Parsed("FileNotFoundError", <<>>)
      [] doc.kind = "string_passes" ->
             Parsed(None, <<[id |-> 1, passes |-> Truthy("\"false\"")]>>)
      [] doc.kind = "badjson"      -> Parsed("JSONDecodeError", <<>>)
      [] doc.kind = "scalar"       -> Parsed("TypeError", <<>>)
      [] doc.kind = "nondict_item" -> Parsed("AttributeError", <<>>)
      [] doc.kind = "missing_id"   -> Parsed("TypeError", <<>>)
      [] doc.kind = "nokey"        -> Parsed(None, <<>>)
      [] OTHER                     -> Parsed(None, TypedList(doc.items, FeatureDefaults))

\* the body of load_plan: read, take steps, build MigrationStep objects
ParsePlan(doc) ==
    CASE doc.kind = "absent"       -> Parsed("FileNotFoundError", <<>>)
      [] doc.kind = "badjson"      -> Parsed("JSONDecodeError", <<>>)
      [] doc.kind = "nonobject"    -> Parsed("AttributeError", <<>>)
      [] doc.kind = "steps_scalar" -> Parsed("TypeError", <<>>)
      [] doc.kind = "nondict_item" -> Parsed("AttributeError", <<>>)
      [] doc.kind = "missing_id"   -> Parsed("TypeError", <<>>)
      [] doc.kind = "nosteps"      -> Parsed(None, <<>>)
      [] OTHER                     -> Parsed(None, TypedList(doc.items, StepDefaults))

\* the body of load_seams: read, unwrap, build SeamInfo objects; seams.json
\* takes the kinds of features.json, "wrapped" being {"seams": [..]}
ParseSeams(doc) ==
    CASE doc.kind = "absent"       -> Parsed("FileNotFoundError", <<>>)
      [] doc.kind = "badjson"      -> Parsed("JSONDecodeError", <<>>)
      [] doc.kind = "scalar"       -> Parsed("TypeError", <<>>)
      [] doc.kind = "nondict_item" -> Parsed("AttributeError", <<>>)
      [] doc.kind = "missing_id"   -> Parsed("TypeError", <<>>)
      [] doc.kind = "nokey"        -> Parsed(None, <<>>)
      [] OTHER                     -> Parsed(None, TypedList(doc.items, SeamDefaults))

\* load_features / load_plan / load_seams: every exception is re-raised to
\* the caller
load_features == ParseFeatures(features)

load_plan == ParsePlan(plan)

load_seams == ParseSeams(seams)

\* how many offending ids a gate reason lists
MaxReported == 5

Min(a, b) == IF a <= b THEN a ELSE b

\* a reason that names every offending id
ReportedIdsAll(offending) == [i \in 1..Len(offending) |-> offending[i].id]

\* ", ".join(x.id for x in offending[:5])
ReportedIds(offending) ==
    [i \in 1..Min(MaxReported, Len(offending)) |-> offending[i].id]

\* A gate outcome: a verdict (allowed, reason), or the exception that escaped
Verdict(allowed, reason, count, ids) ==
    [raised |-> None, allowed |-> allowed, reason |-> reason,
     count |-> count, ids |-> ids]

Raised(exception) ==
    [raised |-> exception, allowed |-> FALSE, reason |-> "", count |-> 0, ids |-> <<>>]

NoVerdict == Raised("unset")

\* a gate that looks for seams.json before it looks into docs/
DocsGateSeamsFirst ==
    IF seams.kind = "absent" THEN Verdict(FALSE, "seams.json does not exist", 0, <<>>)
    ELSE IF docs # "nonempty" THEN Verdict(FALSE, "no documentation", 0, <<>>)
    ELSE Verdict(TRUE, "docs and seams", 0, <<>>)

\* has_docs and seams_path.exists(): the understand -> guardrail gate
DocsGate ==
    IF docs # "nonempty" THEN Verdict(FALSE, "no documentation", 0, <<>>)
    ELSE IF seams.kind = "absent" THEN Verdict(FALSE, "seams.json does not exist", 0, <<>>)
    ELSE Verdict(TRUE, "docs and seams", 0, <<>>)

\* the verdict on a loaded feature list
FeaturesVerdict(items) ==
    LET failing == SelectSeq(items, LAMBDA f : ~f.passes) IN
    IF Len(items) = 0 THEN Verdict(FALSE, "No features defined", 0, <<>>)
    ELSE IF Len(failing) > 0
    THEN Verdict(FALSE, "tests not passing", Len(failing), ReportedIds(failing))
    ELSE Verdict(TRUE, "all characterization tests pass", 0, <<>>)

\* the verdict on a loaded plan
PlanVerdict(items) ==
    LET incomplete == SelectSeq(items, LAMBDA s : s.status # "completed") IN
    IF Len(incomplete) > 0
    THEN Verdict(FALSE, "steps not completed", Len(incomplete), ReportedIds(incomplete))
    ELSE Verdict(TRUE, "all migration steps completed", 0, <<>>)

\* an adjacency test that lets a transition skip phases forward
AdjacentOrLater(from_phase, to_phase) == PhaseIndex(to_phase) > PhaseIndex(from_phase)

\* the adjacency test both gate functions start with
Adjacent(from_phase, to_phase) == PhaseIndex(to_phase) = PhaseIndex(from_phase) + 1

\* _check_phase_gate_unlocked: parses the artifacts itself and turns
\* FileNotFoundError, JSONDecodeError and TypeError into verdicts
CheckPhaseGateUnlocked(from_phase, to_phase) ==
    IF from_phase \notin Phases \/ to_phase \notin Phases
    THEN Verdict(FALSE, "Unknown phase", 0, <<>>)
    ELSE IF ~Adjacent(from_phase, to_phase)
    THEN Verdict(FALSE, "Cannot jump", 0, <<>>)
    ELSE IF from_phase = "understand" THEN DocsGate
    ELSE IF from_phase = "guardrail"
    THEN LET r == ParseFeatures(features) IN
         CASE r.raised = "FileNotFoundError" -> Verdict(FALSE, "features.json not found", 0, <<>>)
           [] r.raised \in {"JSONDecodeError", "TypeError"} ->
                 Verdict(FALSE, "features.json is invalid", 0, <<>>)
           [] r.raised = None -> FeaturesVerdict(r.items)
           [] OTHER -> Raised(r.raised)
    ELSE LET r == ParsePlan(plan) IN
         CASE r.raised = "FileNotFoundError" -> Verdict(FALSE, "migration-plan.json not found", 0, <<>>)
           [] r.raised \in {"JSONDecodeError", "TypeError"} ->
                 Verdict(FALSE, "migration-plan.json is invalid", 0, <<>>)
           [] r.raised = None -> PlanVerdict(r.items)
           [] OTHER -> Raised(r.raised)

\* check_phase_gate: goes through load_features / load_plan and turns only
\* FileNotFoundError into a verdict
CheckPhaseGate(from_phase, to_phase) ==
    IF from_phase \notin Phases \/ to_phase \notin Phases
    THEN Verdict(FALSE, "Unknown phase", 0, <<>>)
    ELSE IF ~Adjacent(from_phase, to_phase)
    THEN Verdict(FALSE, "Cannot jump", 0, <<>>)
    ELSE IF from_phase = "understand" THEN DocsGate
    ELSE IF from_phase = "guardrail"
    THEN LET r == load_features IN
         CASE r.raised = "FileNotFoundError" -> Verdict(FALSE, "features.json not found", 0, <<>>)
           [] r.raised = None -> FeaturesVerdict(r.items)
           [] OTHER -> Raised(r.raised)
    ELSE LET r == load_plan IN
         CASE r.raised = "FileNotFoundError" -> Verdict(FALSE, "migration-plan.json not found", 0, <<>>)
           [] r.raised = None -> PlanVerdict(r.items)
           [] OTHER -> Raised(r.raised)

-----------------------------------------------------------------------------
(* Threads, locks and the record of the last call *)

\* a thread that is in no call
Idle ==
    [pc |-> "idle", op |-> None, arg |-> None, obj |-> None,
     local |-> NoManifest, gate |-> NoVerdict]

\* thread t inside op(arg) on object o at position pc, holding the manifest
\* it loaded and the gate verdict it got
Inside(pc, op, arg, o, local, gate) ==
    [pc |-> pc, op |-> op, arg |-> arg, obj |-> o, local |-> local, gate |-> gate]

\* thread t has invoked op(arg) on object o and not yet run its first statement
Called(op, arg, o) == Inside("called", op, arg, o, NoManifest, NoVerdict)

\* op(arg) on object o can take its first step in thread t: the thread is
\* free to make any call, or it has invoked just this one
Callable(t, op, arg, o) ==
    \/ th[t].pc = "idle"
    \/ th[t].pc = "called" /\ th[t].op = op /\ th[t].obj = o /\ th[t].arg = arg

\* The call that returned last: the operation, the exception it raised (or
\* None), whether it saved the manifest, whether the manifest on disk at its
\* return differs from the one it loaded (pre), the status its phase had in
\* pre, and whether its gate allowed the transition
LastCall(op, arg, raised, wrote, pre, post, gate) ==
    [op |-> op, raised |-> raised, wrote |-> wrote,
     changed |-> pre # post,
     before  |-> IF arg \in Phases THEN pre.phases[arg].status ELSE None,
     allowed |-> gate.raised = None /\ gate.allowed]

NoCall == LastCall(None, None, None, FALSE, NoManifest, NoManifest, NoVerdict)

\* a lock that never makes a caller wait
LockIgnored(o) == lock[o] \in Threads \cup {NoThread}

\* `with self._lock:` can be entered on object o
LockFree(o) == lock[o] = NoThread

\* the step ids callers pass: well-formed ones and one _validate_step_id rejects
StepIds == {"s1", "s2"}

\* with the empty id, one with a space and a semicolon, one ending in a newline
StepArgs == StepIds \cup {"", "s 1;rm", "s1\n"}

\* the characters of a step id, in order
StepChars(step_id) ==
    CASE step_id = "s1" -> <<"s", "1">>
      [] step_id = "s2" -> <<"s", "2">>
      [] step_id = "" -> <<>>
      [] step_id = "s 1;rm" -> <<"s", " ", "1", ";", "r", "m">>
      [] step_id = "s1\n" -> <<"s", "1", "\n">>

\* the character class [a-zA-Z0-9_-]
SafeChars ==
    {"a", "b", "c", "d", "e", "f", "g", "h", "i", "j", "k", "l", "m",
     "n", "o", "p", "q", "r", "s", "t", "u", "v", "w", "x", "y", "z",
     "A", "B", "C", "D", "E", "F", "G", "H", "I", "J", "K", "L", "M",
     "N", "O", "P", "Q", "R", "S", "T", "U", "V", "W", "X", "Y", "Z",
     "0", "1", "2", "3", "4", "5", "6", "7", "8", "9", "_", "-"}

\* every character of chars is in the class, and there is at least one
OnlySafeChars(chars) ==
    /\ Len(chars) >= 1
    /\ \A i \in 1..Len(chars) : chars[i] \in SafeChars

\* re.match(r'^[a-zA-Z0-9_-]+$', ...): `$` matches at the end of the string
\* and also just before a newline that ends the string
RegexMatch(chars) ==
    \/ OnlySafeChars(chars)
    \/ /\ Len(chars) >= 1
       /\ chars[Len(chars)] = "\n"
       /\ OnlySafeChars(SubSeq(chars, 1, Len(chars) - 1))

\* _validate_step_id
ValidStepId(step_id) == RegexMatch(StepChars(step_id))

\* git refuses a ref name that holds a space or a control character
GitRefName(step_id) ==
    \A i \in 1..Len(StepChars(step_id)) : StepChars(step_id)[i] \notin {" ", "\n"}

\* the repository of codebase_path: the head commit, the number of commits
\* made so far, a working tree with uncommitted changes, and the commit each
\* tag loki-migrate/<s>/pre points to (0: no such tag)
NoRepo ==
    [head |-> 1, commits |-> 1, dirty |-> FALSE, target |-> [s \in StepIds |-> 0]]

\* the tag targets once the tags are newtags, a new tag pointing to the head
Retarget(newtags) ==
    [s \in StepIds |-> IF s \notin newtags THEN 0
                       ELSE IF s \in tags THEN repo.target[s] ELSE repo.head]

\* a git tag that moves an existing tag (git tag -f)
GitTagForced(step_id) == GitRefName(step_id) /\ "git" \notin broken

\* `git tag <tag_name>` exits 0: the name is a ref name, no such tag exists
GitTag(step_id) == GitRefName(step_id) /\ "git" \notin broken /\ step_id \notin tags

\* a tag deletion that does nothing
GitTagDeleteSkipped(step_id) == tags

\* `git tag -d <tag_name>`: the tags afterwards (a failure is only logged)
GitTagDelete(step_id) == IF "git" \in broken THEN tags ELSE tags \ {step_id}

\* `git reset --hard <tag_name>` exits 0: the tag resolves
GitReset(step_id) == step_id \in tags /\ "git" \notin broken

\* a reset that also drops the tags of every other step
GitResetPruning(step_id) ==
    [repo EXCEPT !.head = repo.target[step_id], !.dirty = FALSE,
                 !.target = [s \in StepIds |-> IF s = step_id THEN repo.target[s] ELSE 0]]

\* a reset that cleans the working tree and leaves the head where it is
GitResetHead(step_id) == [repo EXCEPT !.dirty = FALSE]

\* the repository after `git reset --hard <tag_name>`
GitResetHard(step_id) == [repo EXCEPT !.head = repo.target[step_id], !.dirty = FALSE]

\* a rollback that ignores git's exit status
RollbackUnchecked(step_id) == None

\* what rollback_to_checkpoint raises after running git reset with check=True
RollbackRaises(step_id) == IF GitReset(step_id) THEN None ELSE "RuntimeError"

\* the lists save_features / save_plan are called with in the pipeline runs
Feature(id, passes) == [id |-> id, passes |-> passes]

MigrationStep(id, status) == [id |-> id, status |-> status]

SavedFeatures == {<<Feature(1, FALSE)>>, <<Feature(1, TRUE)>>}

SavedPlans == {<<MigrationStep(1, "pending")>>, <<MigrationStep(1, "completed")>>}

\* a file that does not exist, and a file holding the document doc: whole, or
\* only its first bytes (doc = None: an empty file)
NoFile == [exists |-> FALSE, doc |-> None, whole |-> FALSE]

Holding(doc, whole) == [exists |-> TRUE, doc |-> doc, whole |-> whole]

\* the contents _atomic_write is called with: two documents, and one holding
\* a lone surrogate, which str.encode("utf-8") refuses
Contents == {"A", "B", "surrogate"}

Encodable(content) == content # "surrogate"

\* no _atomic_write call in progress, the target file absent
NoWrite ==
    [pc |-> "idle", file |-> NoFile, tmp |-> NoFile, content |-> None,
     prior |-> NoFile, raised |-> None]

\* _atomic_write returns (raised = None) or leaves by an exception
WriteReturn(raised) == [aw EXCEPT !.pc = "idle", !.raised = raised]

\* the exceptions get_progress passes over when it reads features.json and
\* migration-plan.json, here without the missing file
ToleratedCorruptOnly == {"JSONDecodeError", "TypeError"}

\* except (FileNotFoundError, json.JSONDecodeError, TypeError): pass
Tolerated == {"FileNotFoundError", "JSONDecodeError", "TypeError"}

\* current_phase, overall_status and completed_phases of get_progress
PhaseSummary(current_phase, status, completed_phases) ==
    [current_phase |-> current_phase, status |-> status,
     completed_phases |-> completed_phases]

\* a phase loop that goes on after an in_progress phase
RECURSIVE PhaseLoopNoBreak(_, _, _)
PhaseLoopNoBreak(m, i, so) ==
    IF i > Len(PHASE_ORDER) THEN so
    ELSE IF m.phases[PHASE_ORDER[i]].status = "in_progress"
    THEN PhaseLoopNoBreak(m, i + 1,
                          PhaseSummary(PHASE_ORDER[i], "in_progress", so.completed_phases))
    ELSE IF m.phases[PHASE_ORDER[i]].status = "completed"
    THEN PhaseLoopNoBreak(m, i + 1,
                          PhaseSummary(PHASE_ORDER[i], "completed",
                                       Append(so.completed_phases, PHASE_ORDER[i])))
    ELSE PhaseLoopNoBreak(m, i + 1, so)

\* the phase loop of get_progress from position i on, so being the summary
\* so far: in_progress ends the loop, completed is recorded
RECURSIVE PhaseLoop(_, _, _)
PhaseLoop(m, i, so) ==
    IF i > Len(PHASE_ORDER) THEN so
    ELSE IF m.phases[PHASE_ORDER[i]].status = "in_progress"
    THEN PhaseSummary(PHASE_ORDER[i], "in_progress", so.completed_phases)
    ELSE IF m.phases[PHASE_ORDER[i]].status = "completed"
    THEN PhaseLoop(m, i + 1,
                   PhaseSummary(PHASE_ORDER[i], "completed",
                                Append(so.completed_phases, PHASE_ORDER[i])))
    ELSE PhaseLoop(m, i + 1, so)

\* features_passing / features_total of get_progress
FeatureStats(parsed) ==
    IF parsed.raised # None THEN [passing |-> 0, total |-> 0]
    ELSE [passing |-> Len(SelectSeq(parsed.items, LAMBDA f : f.passes)),
          total |-> Len(parsed.items)]

\* the step block of get_progress: current_step is the id of the first
\* in_progress step (0 for None), current the index completed + 1 capped by
\* the total
StepStats(parsed) ==
    IF parsed.raised # None
    THEN [current_step |-> 0, current |-> 0, completed |-> 0, total |-> 0]
    ELSE LET steps_total == Len(parsed.items)
             steps_completed == Len(SelectSeq(parsed.items, LAMBDA s : s.status = "completed"))
             in_progress == SelectSeq(parsed.items, LAMBDA s : s.status = "in_progress")
         IN [current_step |-> IF in_progress # <<>> THEN in_progress[1].id ELSE 0,
             current |-> IF steps_total # 0 THEN Min(steps_completed + 1, steps_total) ELSE 0,
             completed |-> steps_completed,
             total |-> steps_total]

\* last_checkpoint of get_progress: None (the tag is <<>>), the record read
\* from checkpoints/<step_id>.json, or the tag alone when that file is missing
LastCheckpoint(m) ==
    IF m.checkpoints = <<>> THEN [tag |-> <<>>, step_id |-> "", timestamp |-> ""]
    ELSE LET last_tag == m.checkpoints[Len(m.checkpoints)]
             cp_step_id == last_tag[2]
         IN IF cp_step_id \in meta
            THEN [tag |-> last_tag, step_id |-> cp_step_id, timestamp |-> "created_at"]
            ELSE [tag |-> last_tag, step_id |-> "", timestamp |-> ""]

\* the dict get_progress returns, or the exception that leaves it
get_progress ==
    LET so == PhaseLoop(manifest, 1, PhaseSummary("pending", "pending", <<>>))
        step_stats == StepStats(load_plan)
    IN [raised |-> IF load_features.raised \notin Tolerated \cup {None} THEN load_features.raised
                   ELSE IF load_plan.raised \notin Tolerated \cup {None} THEN load_plan.raised
                   ELSE None,
        status |-> so.status,
        current_phase |-> so.current_phase,
        completed_phases |-> so.completed_phases,
        current_step |-> step_stats.current_step,
        features |-> FeatureStats(load_features),
        steps |-> [current |-> step_stats.current, completed |-> step_stats.completed,
                   total |-> step_stats.total],
        last_checkpoint |-> LastCheckpoint(manifest),
        checkpoints_count |-> Len(manifest.checkpoints)]

\* migration ids, character by character: mig_<date>_<time>_<name>
MigPrefix == <<"m", "i", "g", "_">>

Stamp == <<"2", "0", "2", "6", "0", "1", "0", "1", "_", "1", "2", "0", "0", "0", "0", "_">>

LaterStamp == <<"2", "0", "2", "6", "1", "1", "0", "4", "_", "0", "9", "3", "0", "0", "0", "_">>

\* two well-formed ids, and the first with a newline after it
IdA == MigPrefix \o Stamp \o <<"a">>

IdB == MigPrefix \o Stamp \o <<"b">>

IdNewline == IdA \o <<"\n">>

\* the id _generate_migration_id gave the pipeline under study
OwnId == MigPrefix \o LaterStamp \o <<"p", "r", "o", "j">>

\* ids of another form: empty, a path, a date of 7 digits, no name
OtherIds ==
    {<<>>, <<".", ".", "/", "x">>, MigPrefix \o Tail(Stamp) \o <<"a">>, MigPrefix \o Stamp}

\* the ids load is called with
MigrationIds == {IdA, IdB, IdNewline, OwnId} \cup OtherIds

Digits == {"0", "1", "2", "3", "4", "5", "6", "7", "8", "9"}

\* mig_\d{8}_\d{6}_[a-zA-Z0-9_-]+ over the whole of chars
IdPattern(chars) ==
    /\ Len(chars) >= 21
    /\ SubSeq(chars, 1, 4) = MigPrefix
    /\ \A i \in 5..12 : chars[i] \in Digits
    /\ chars[13] = "_"
    /\ \A i \in 14..19 : chars[i] \in Digits
    /\ chars[20] = "_"
    /\ OnlySafeChars(SubSeq(chars, 21, Len(chars)))

\* re.match(r'^mig_\d{8}_\d{6}_[a-zA-Z0-9_-]+$', migration_id): `$` matches at
\* the end of the string and also just before a newline that ends it
MatchesMigrationId(chars) ==
    \/ IdPattern(chars)
    \/ /\ Len(chars) >= 1
       /\ chars[Len(chars)] = "\n"
       /\ IdPattern(SubSeq(chars, 1, Len(chars) - 1))

\* the names under the migrations root besides the pipeline's own directory,
\* in the order sorted(iterdir()) gives them
EntryNames == <<IdA, IdNewline, IdB>>

\* the statuses a phase entry of a manifest.json can hold ("missing": the
\* manifest has no entry for the phase)
EntryStatuses == {"missing", "pending", "in_progress", "completed", "failed"}

\* what a name under the migrations root is: nothing ("none"), a regular file
\* ("file"), a directory without manifest.json ("empty"), or a directory
\* whose manifest.json is a manifest ("valid"), is no JSON ("badjson"), is no
\* UTF-8 ("badutf8"), is a JSON list ("nonobject"), or is an object whose
\* phases is null ("badphases")
Entry(kind, phases) == [kind |-> kind, phases |-> phases]

NoPhases == [phase \in Phases |-> "missing"]

FreshPhases ==
    [phase \in Phases |-> IF phase = "understand" THEN "in_progress" ELSE "pending"]

EntryKinds ==
    {"none", "file", "empty", "valid", "badjson", "badutf8", "nonobject", "badphases"}

\* no other entry in the migrations root
NoEntries == [i \in 1..Len(EntryNames) |-> Entry("none", NoPhases)]

\* the entry the name chars has under the migrations root: one of root, or
\* the directory of the pipeline under study
EntryAt(chars) ==
    IF chars = OwnId
    THEN IF manifest.exists
         THEN Entry("valid", [phase \in Phases |-> manifest.phases[phase].status])
         ELSE Entry("empty", NoPhases)
    ELSE LET i == CHOOSE i \in 1..Len(EntryNames) : EntryNames[i] = chars IN root[i]

\* a load that takes every directory for a migration
LoadRaisesUnprobed(entry) ==
    CASE entry.kind \in {"none", "file"} -> "FileNotFoundError"
      [] entry.kind = "badjson" -> "JSONDecodeError"
      [] entry.kind = "badutf8" -> "UnicodeDecodeError"
      [] entry.kind = "nonobject" -> "AttributeError"
      [] OTHER -> None

\* what load raises after the id passed: os.path.isdir, os.path.isfile,
\* json.load, data.get('source_info', {}) ...
LoadRaises(entry) ==
    CASE entry.kind \in {"none", "file"} -> "FileNotFoundError"
      [] entry.kind = "empty" -> "FileNotFoundError"
      [] entry.kind = "badjson" -> "JSONDecodeError"
      [] entry.kind = "badutf8" -> "UnicodeDecodeError"
      [] entry.kind = "nonobject" -> "AttributeError"
      [] OTHER -> None

\* the status loop of a registry that goes on after an in_progress phase
RegistryStatusNoBreak(phases) ==
    IF phases[PHASE_ORDER[Len(PHASE_ORDER)]] = "completed" THEN "completed"
    ELSE IF \E phase \in Phases : phases[phase] = "in_progress" THEN "in_progress"
    ELSE IF \E phase \in Phases : phases[phase] = "completed" THEN "completed"
    ELSE "pending"

\* list_migrations' loop over PHASE_ORDER from position i on, status being
\* the value so far: in_progress breaks, completed is remembered
RECURSIVE StatusLoop(_, _, _)
StatusLoop(phases, i, status) ==
    IF i > Len(PHASE_ORDER) THEN status
    ELSE IF phases[PHASE_ORDER[i]] = "in_progress" THEN "in_progress"
    ELSE IF phases[PHASE_ORDER[i]] = "completed" THEN StatusLoop(phases, i + 1, "completed")
    ELSE StatusLoop(phases, i + 1, status)

\* the overall status list_migrations gives a manifest
RegistryStatus(phases) == StatusLoop(phases, 1, "pending")

\* what reading one entry does to list_migrations: the entry is passed over,
\* listed, or its exception leaves the function
ListingOf(entry) ==
    CASE entry.kind \in {"none", "file", "empty", "badjson"} -> "skipped"
      [] entry.kind = "valid" -> "listed"
      [] entry.kind = "badutf8" -> "UnicodeDecodeError"
      [] OTHER -> "AttributeError"

\* the names list_migrations visits, in order
ListedNames == EntryNames \o <<OwnId>>

\* list_migrations from the i-th name on, results being the list so far
RECURSIVE ListLoop(_, _)
ListLoop(i, results) ==
    IF i > Len(ListedNames) THEN [raised |-> None, entries |-> results]
    ELSE LET entry == EntryAt(ListedNames[i]) IN
         CASE ListingOf(entry) = "skipped" -> ListLoop(i + 1, results)
           [] ListingOf(entry) = "listed" ->
                  ListLoop(i + 1, Append(results, [id |-> ListedNames[i],
                                                   status |-> RegistryStatus(entry.phases)]))
           [] OTHER -> [raised |-> ListingOf(entry), entries |-> <<>>]

\* no get_progress, list_migrations or load call has returned yet

NoReport == [op |-> None]

\* thread t returns from its call
Return(t, call) ==
    /\ th' = [th EXCEPT ![t] = Idle]
    /\ last' = call

-----------------------------------------------------------------------------
(* The operations *)

\* create_manifest: build the initial manifest, save_manifest under the lock
CreateManifest(t, o) ==
    /\ th[t].pc = "idle"
    /\ o \in objs
    /\ LockFree(o)
    /\ manifest' = InitialManifest(clock)
    /\ last' = LastCall("create_manifest", None, None, TRUE, manifest, manifest', NoVerdict)
    /\ UNCHANGED <<docs, seams, features, plan, tags, meta, objs, lock, th, clock,
                   done, probe, repo, broken, aw, root, report>>

\* start_phase up to the manifest load: validate the phase, take the lock, load
StartPhaseBegin(t, o, phase) ==
    /\ Callable(t, "start_phase", phase, o)
    /\ o \in objs
    /\ IF phase \notin Phases
       THEN /\ last' = LastCall("start_phase", phase, "ValueError", FALSE,
                                manifest, manifest, NoVerdict)
            /\ th' = [th EXCEPT ![t] = Idle] /\ UNCHANGED lock
       ELSE /\ LockFree(o)
            /\ IF ~manifest.exists
               THEN /\ last' = LastCall("start_phase", phase, "FileNotFoundError", FALSE,
                                        manifest, manifest, NoVerdict)
                    /\ th' = [th EXCEPT ![t] = Idle] /\ UNCHANGED lock
               ELSE /\ th' = [th EXCEPT ![t] =
                                Inside("loaded", "start_phase", phase, o, manifest, NoVerdict)]
                    /\ lock' = [lock EXCEPT ![o] = t]
                    /\ UNCHANGED last
    /\ UNCHANGED <<manifest, docs, seams, features, plan, tags, meta, objs, clock,
                   done, probe, repo, broken, aw, root, report>>

\* start_phase from the status test to the release of the lock
StartPhaseCommit(t) ==
    /\ th[t].pc = "loaded"
    /\ th[t].op = "start_phase"
    /\ LET out == StartPhase(th[t].local, th[t].arg, clock) IN
       /\ manifest' = IF out.wrote THEN out.manifest ELSE manifest
       /\ Return(t, LastCall("start_phase", th[t].arg, out.raised, out.wrote,
                             th[t].local, manifest', NoVerdict))
    /\ lock' = [lock EXCEPT ![th[t].obj] = NoThread]
    /\ UNCHANGED <<docs, seams, features, plan, tags, meta, objs, clock, done, probe, repo, broken, aw, root, report>>

\* the gate advance_phase evaluates: none for the terminal phase
AdvanceGate(phase) ==
    IF NextPhase(phase) = None
    THEN Verdict(TRUE, "no successor", 0, <<>>)
    ELSE CheckPhaseGateUnlocked(phase, NextPhase(phase))

\* advance_phase up to the gate: validate the phase, take the lock, evaluate the gate
AdvanceBegin(t, o, phase) ==
    /\ Callable(t, "advance_phase", phase, o)
    /\ o \in objs
    /\ IF phase \notin Phases
       THEN /\ last' = LastCall("advance_phase", phase, "ValueError", FALSE,
                                manifest, manifest, NoVerdict)
            /\ th' = [th EXCEPT ![t] = Idle] /\ UNCHANGED lock
       ELSE /\ LockFree(o)
            /\ LET gate == AdvanceGate(phase) IN
               IF gate.raised # None \/ ~gate.allowed
               THEN /\ last' = LastCall("advance_phase", phase,
                                        IF gate.raised # None THEN gate.raised
                                        ELSE "RuntimeError",
                                        FALSE, manifest, manifest, gate)
                    /\ th' = [th EXCEPT ![t] = Idle] /\ UNCHANGED lock
               ELSE /\ th' = [th EXCEPT ![t] =
                                Inside("gated", "advance_phase", phase, o, NoManifest, gate)]
                    /\ lock' = [lock EXCEPT ![o] = t]
                    /\ UNCHANGED last
    /\ UNCHANGED <<manifest, docs, seams, features, plan, tags, meta, objs, clock,
                   done, probe, repo, broken, aw, root, report>>

\* an advance_phase that calls load_manifest, which takes the lock, after the gate
AdvanceLoadLocked(t) ==
    /\ th[t].pc = "gated"
    /\ LockFree(th[t].obj)
    /\ th' = [th EXCEPT ![t].pc = "loaded", ![t].local = manifest]
    /\ UNCHANGED <<manifest, docs, seams, features, plan, tags, meta, objs, lock, clock,
                   last, done, probe, repo, broken, aw, root, report>>

\* advance_phase: _load_manifest_unlocked after the gate passed
AdvanceLoad(t) ==
    /\ th[t].pc = "gated"
    /\ IF ~manifest.exists
       THEN /\ Return(t, LastCall("advance_phase", th[t].arg, "FileNotFoundError", FALSE,
                                  manifest, manifest, th[t].gate))
            /\ lock' = [lock EXCEPT ![th[t].obj] = NoThread]
       ELSE /\ th' = [th EXCEPT ![t].pc = "loaded", ![t].local = manifest]
            /\ UNCHANGED <<lock, last>>
    /\ UNCHANGED <<manifest, docs, seams, features, plan, tags, meta, objs, clock,
                   done, probe, repo, broken, aw, root, report>>

\* advance_phase from the status test to the release of the lock
AdvanceCommit(t) ==
    /\ th[t].pc = "loaded"
    /\ th[t].op = "advance_phase"
    /\ LET out == AdvancePhase(th[t].local, th[t].arg, clock) IN
       /\ manifest' = IF out.wrote THEN out.manifest ELSE manifest
       /\ Return(t, LastCall("advance_phase", th[t].arg, out.raised, out.wrote,
                             th[t].local, manifest', th[t].gate))
    /\ lock' = [lock EXCEPT ![th[t].obj] = NoThread]
    /\ UNCHANGED <<docs, seams, features, plan, tags, meta, objs, clock, done, probe, repo, broken, aw, root, report>>

\* create_checkpoint up to the tag: validate the step id, run git tag
CheckpointTag(t, o, step_id) ==
    /\ Callable(t, "create_checkpoint", step_id, o)
    /\ o \in objs
    /\ IF ~ValidStepId(step_id) \/ ~GitTag(step_id)
       THEN /\ last' = LastCall("create_checkpoint", step_id,
                                IF ~ValidStepId(step_id) THEN "ValueError"
                                ELSE "RuntimeError",
                                FALSE, manifest, manifest, NoVerdict)
            /\ th' = [th EXCEPT ![t] = Idle]
            /\ UNCHANGED <<tags, repo>>
       ELSE /\ tags' = tags \cup {step_id}
            /\ repo' = [repo EXCEPT !.target = Retarget(tags')]
            /\ th' = [th EXCEPT ![t] =
                        Inside("tagged", "create_checkpoint", step_id, o, NoManifest, NoVerdict)]
            /\ UNCHANGED last
    /\ UNCHANGED <<manifest, docs, seams, features, plan, meta, objs, lock, clock,
                   done, probe, broken, aw, root, report>>

\* create_checkpoint: take the lock and load the manifest; a failing load
\* leaves the with-block and enters the except branch
CheckpointLoad(t) ==
    /\ th[t].pc = "tagged"
    /\ LockFree(th[t].obj)
    /\ IF ~manifest.exists
       THEN /\ th' = [th EXCEPT ![t].pc = "compensate",
                                ![t].gate = Raised("FileNotFoundError")]
            /\ UNCHANGED lock
       ELSE /\ th' = [th EXCEPT ![t].pc = "loaded", ![t].local = manifest]
            /\ lock' = [lock EXCEPT ![th[t].obj] = t]
    /\ UNCHANGED <<manifest, docs, seams, features, plan, tags, meta, objs, clock,
                   last, done, probe, repo, broken, aw, root, report>>

\* create_checkpoint: append the tag, save, release the lock; a failing
\* _atomic_write leaves manifest.json as it was and enters the except branch
CheckpointSave(t) ==
    /\ th[t].pc = "loaded"
    /\ th[t].op = "create_checkpoint"
    /\ IF "disk" \in broken
       THEN /\ th' = [th EXCEPT ![t].pc = "compensate", ![t].gate = Raised("OSError")]
            /\ UNCHANGED manifest
       ELSE /\ manifest' = AppendCheckpoint(th[t].local, th[t].arg)
            /\ th' = [th EXCEPT ![t].pc = "saved"]
    /\ lock' = [lock EXCEPT ![th[t].obj] = NoThread]
    /\ UNCHANGED <<docs, seams, features, plan, tags, meta, objs, clock, last,
                   done, probe, repo, broken, aw, root, report>>

\* create_checkpoint's except branch: delete the tag (best effort), re-raise
CheckpointCompensate(t) ==
    /\ th[t].pc = "compensate"
    /\ tags' = GitTagDelete(th[t].arg)
    /\ repo' = [repo EXCEPT !.target = Retarget(tags')]
    /\ Return(t, LastCall("create_checkpoint", th[t].arg, th[t].gate.raised, FALSE,
                          manifest, manifest, NoVerdict))
    /\ UNCHANGED <<manifest, docs, seams, features, plan, meta, objs, lock, clock,
                   done, probe, broken, aw, root, report>>

\* create_checkpoint: write checkpoints/<step_id>.json and return the tag
\* name; a failing _atomic_write propagates to the caller
CheckpointMeta(t) ==
    /\ th[t].pc = "saved"
    /\ IF "disk" \in broken
       THEN /\ Return(t, LastCall("create_checkpoint", th[t].arg, "OSError", TRUE,
                                  th[t].local, manifest, NoVerdict))
            /\ UNCHANGED <<meta, done>>
       ELSE /\ meta' = meta \cup {th[t].arg}
            /\ done' = done \cup {th[t].arg}
            /\ Return(t, LastCall("create_checkpoint", th[t].arg, None, TRUE,
                                  th[t].local, manifest, NoVerdict))
    /\ UNCHANGED <<manifest, docs, seams, features, plan, tags, objs, lock, clock, probe,
                   repo, broken, aw, root, report>>

\* rollback_to_checkpoint up to the reset: validate the step id
RollbackBegin(t, o, step_id) ==
    /\ th[t].pc = "idle"
    /\ o \in objs
    /\ IF ~ValidStepId(step_id)
       THEN /\ last' = LastCall("rollback_to_checkpoint", step_id, "ValueError", FALSE,
                                manifest, manifest, NoVerdict)
            /\ UNCHANGED th
       ELSE /\ th' = [th EXCEPT ![t] = Inside("resetting", "rollback_to_checkpoint",
                                              step_id, o, NoManifest, NoVerdict)]
            /\ UNCHANGED last
    /\ UNCHANGED <<manifest, docs, seams, features, plan, tags, meta, objs, lock, clock,
                   done, probe, repo, broken, aw, root, report>>

\* rollback_to_checkpoint: git reset --hard <tag_name>, an error exit raised
RollbackReset(t) ==
    /\ th[t].pc = "resetting"
    /\ repo' = IF GitReset(th[t].arg) THEN GitResetHard(th[t].arg) ELSE repo
    /\ Return(t, LastCall("rollback_to_checkpoint", th[t].arg, RollbackRaises(th[t].arg),
                          FALSE, manifest, manifest, NoVerdict))
    /\ UNCHANGED <<manifest, docs, seams, features, plan, tags, meta, objs, lock, clock,
                   done, probe, broken, aw, root, report>>

\* a commit lands in the repository (the migration's own work, no pipeline call)
Commit ==
    /\ repo.commits < MaxCommits
    /\ repo' = [repo EXCEPT !.commits = @ + 1, !.head = repo.commits + 1, !.dirty = FALSE]
    /\ UNCHANGED <<manifest, docs, seams, features, plan, tags, meta, objs, lock, th,
                   clock, last, done, probe, broken, aw, root, report>>

\* _atomic_write(path, content) is called; the model follows the temp file of
\* this call only
AtomicWriteCall(content) ==
    /\ aw.pc = "idle"
    /\ aw' = [aw EXCEPT !.pc = "mkdir", !.content = content, !.prior = aw.file,
                        !.tmp = NoFile, !.raised = None]
    /\ UNCHANGED <<manifest, docs, seams, features, plan, tags, meta, objs, lock, th,
                   clock, last, done, probe, repo, broken, root, report>>

\* path.parent.mkdir(parents=True, exist_ok=True), outside the try block
AtomicWriteMkdir(ok) ==
    /\ aw.pc = "mkdir"
    /\ aw' = IF ok THEN [aw EXCEPT !.pc = "mkstemp"] ELSE WriteReturn("OSError")
    /\ UNCHANGED <<manifest, docs, seams, features, plan, tags, meta, objs, lock, th,
                   clock, last, done, probe, repo, broken, root, report>>

\* tempfile.mkstemp(dir=path.parent, suffix=".tmp")
AtomicWriteMkstemp(ok) ==
    /\ aw.pc = "mkstemp"
    /\ aw' = IF ok THEN [aw EXCEPT !.pc = "write", !.tmp = Holding(None, FALSE)]
             ELSE [aw EXCEPT !.pc = "cleanup"]
    /\ UNCHANGED <<manifest, docs, seams, features, plan, tags, meta, objs, lock, th,
                   clock, last, done, probe, repo, broken, root, report>>

\* os.write(fd, content.encode("utf-8")): the encoding error is no OSError and
\* passes the except clause by; os.write writes all bytes, or fewer without
\* an error (its return value is dropped), or fails
AtomicWriteWrite(outcome) ==
    /\ aw.pc = "write"
    /\ aw' = IF ~Encodable(aw.content) THEN WriteReturn("UnicodeEncodeError")
             ELSE CASE outcome = "all" ->
                         [aw EXCEPT !.pc = "fsync", !.tmp = Holding(aw.content, TRUE)]
                    [] outcome = "short" ->
                         [aw EXCEPT !.pc = "fsync", !.tmp = Holding(aw.content, FALSE)]
                    [] outcome = "error" ->
                         [aw EXCEPT !.pc = "cleanup"]
    /\ UNCHANGED <<manifest, docs, seams, features, plan, tags, meta, objs, lock, th,
                   clock, last, done, probe, repo, broken, root, report>>

\* os.fsync(fd), then os.close(fd) in the finally clause
AtomicWriteFsync(ok) ==
    /\ aw.pc = "fsync"
    /\ aw' = [aw EXCEPT !.pc = IF ok THEN "rename" ELSE "cleanup"]
    /\ UNCHANGED <<manifest, docs, seams, features, plan, tags, meta, objs, lock, th,
                   clock, last, done, probe, repo, broken, root, report>>

\* os.rename(tmp_path, path): the temp file becomes the target in one step
AtomicWriteRename(ok) ==
    /\ aw.pc = "rename"
    /\ aw' = IF ok THEN [WriteReturn(None) EXCEPT !.file = aw.tmp, !.tmp = NoFile]
             ELSE [aw EXCEPT !.pc = "cleanup"]
    /\ UNCHANGED <<manifest, docs, seams, features, plan, tags, meta, objs, lock, th,
                   clock, last, done, probe, repo, broken, root, report>>

\* except OSError: os.unlink(tmp_path) if a temp file was made (a failing
\* unlink is passed over), then re-raise
AtomicWriteCleanup(ok) ==
    /\ aw.pc = "cleanup"
    /\ aw' = [WriteReturn("OSError") EXCEPT !.tmp = IF ok THEN NoFile ELSE aw.tmp]
    /\ UNCHANGED <<manifest, docs, seams, features, plan, tags, meta, objs, lock, th,
                   clock, last, done, probe, repo, broken, root, report>>

\* the process is killed inside _atomic_write
AtomicWriteKilled ==
    /\ aw.pc # "idle"
    /\ aw' = WriteReturn("killed")
    /\ UNCHANGED <<manifest, docs, seams, features, plan, tags, meta, objs, lock, th,
                   clock, last, done, probe, repo, broken, root, report>>

\* get_progress() with no other call in progress
GetProgress ==
    /\ manifest.exists
    /\ lock["ctor"] = NoThread
    /\ report' = [op |-> "get_progress"] @@ get_progress
    /\ UNCHANGED <<manifest, docs, seams, features, plan, tags, meta, objs, lock, th,
                   clock, last, done, probe, repo, broken, aw, root>>

\* load_features(), load_plan() or load_seams() with no other call in progress
LoadArtifact(artifact) ==
    /\ lock["ctor"] = NoThread
    /\ report' = [op |-> "load_artifact", artifact |-> artifact] @@
                     CASE artifact = "features" -> load_features
                       [] artifact = "plan" -> load_plan
                       [] artifact = "seams" -> load_seams
    /\ UNCHANGED <<manifest, docs, seams, features, plan, tags, meta, objs, lock, th,
                   clock, last, done, probe, repo, broken, aw, root>>

\* save_features(items), save_plan(plan with steps items) or save_seams(items)
\* with no other call in progress: the canonical shape, written under the lock
SaveArtifact(artifact, items) ==
    /\ lock["ctor"] = NoThread
    /\ features' = IF artifact = "features" THEN Doc("list", Serialized(items)) ELSE features
    /\ plan' = IF artifact = "plan" THEN Doc("plan", Serialized(items)) ELSE plan
    /\ seams' = IF artifact = "seams" THEN Doc("list", Serialized(items)) ELSE seams
    /\ report' = [op |-> "save_artifact", artifact |-> artifact, raised |-> None,
                  items |-> items]
    /\ UNCHANGED <<manifest, docs, tags, meta, objs, lock, th, clock, last, done, probe,
                   repo, broken, aw, root>>

\* MigrationPipeline.load(migration_id), for any id and any state of the
\* migrations root: the pattern first, then the directory and the manifest
Load(migration_id) ==
    /\ report' = IF ~MatchesMigrationId(migration_id)
                 THEN [op |-> "load", migration_id |-> migration_id,
                       raised |-> "ValueError", probed |-> FALSE]
                 ELSE [op |-> "load", migration_id |-> migration_id,
                       raised |-> LoadRaises(EntryAt(migration_id)), probed |-> TRUE]
    /\ UNCHANGED <<manifest, docs, seams, features, plan, tags, meta, objs, lock, th,
                   clock, last, done, probe, repo, broken, aw, root>>

\* list_migrations()
ListMigrations ==
    /\ report' = [op |-> "list_migrations"] @@ ListLoop(1, <<>>)
    /\ UNCHANGED <<manifest, docs, seams, features, plan, tags, meta, objs, lock, th,
                   clock, last, done, probe, repo, broken, aw, root>>

\* a file of the working tree is edited and not committed
EditTree ==
    /\ ~repo.dirty
    /\ repo' = [repo EXCEPT !.dirty = TRUE]
    /\ UNCHANGED <<manifest, docs, seams, features, plan, tags, meta, objs, lock, th,
                   clock, last, done, probe, broken, aw, root, report>>

\* from now on what (writes under the migration directory, or git commands
\* that touch the repository) fails
Break(what) ==
    /\ what \notin broken
    /\ broken' = broken \cup {what}
    /\ UNCHANGED <<manifest, docs, seams, features, plan, tags, meta, objs, lock, th,
                   clock, last, done, probe, repo, aw, root, report>>

\* a save_features that writes without taking the lock
SaveFeaturesUnlocked(t, o, items) ==
    /\ th[t].pc = "idle"
    /\ o \in objs
    /\ features' = Doc("list", Serialized(items))
    /\ UNCHANGED <<manifest, docs, seams, plan, tags, meta, objs, lock, th, clock,
                   last, done, probe, repo, broken, aw, root, report>>

\* save_features: the canonical flat list, written under the lock
SaveFeatures(t, o, items) ==
    /\ Callable(t, "save_features", None, o)
    /\ o \in objs
    /\ LockFree(o)
    /\ features' = Doc("list", Serialized(items))
    /\ th' = [th EXCEPT ![t] = Idle]
    /\ UNCHANGED <<manifest, docs, seams, plan, tags, meta, objs, lock, clock,
                   last, done, probe, repo, broken, aw, root, report>>

\* save_plan: the plan object with its steps, written under the lock
SavePlan(t, o, items) ==
    /\ Callable(t, "save_plan", None, o)
    /\ o \in objs
    /\ LockFree(o)
    /\ plan' = Doc("plan", Serialized(items))
    /\ th' = [th EXCEPT ![t] = Idle]
    /\ UNCHANGED <<manifest, docs, seams, features, tags, meta, objs, lock, clock,
                   last, done, probe, repo, broken, aw, root, report>>

\* save_seams: the canonical flat list, written under the lock
SaveSeams(t, o) ==
    /\ th[t].pc = "idle"
    /\ o \in objs
    /\ LockFree(o)
    /\ seams = Absent
    /\ seams' = Doc("list", <<>>)
    /\ UNCHANGED <<manifest, docs, features, plan, tags, meta, objs, lock, th, clock,
                   last, done, probe, repo, broken, aw, root, report>>

\* the upstream analysis writes a document into docs/ (no pipeline call, no lock)
WriteDocs ==
    /\ docs # "nonempty"
    /\ docs' = "nonempty"
    /\ UNCHANGED <<manifest, seams, features, plan, tags, meta, objs, lock, th, clock,
                   last, done, probe, repo, broken, aw, root, report>>

\* time passes between two readings of the clock
Tick ==
    /\ clock < MaxClock
    /\ clock' = clock + 1
    /\ UNCHANGED <<manifest, docs, seams, features, plan, tags, meta, objs, lock, th,
                   last, done, probe, repo, broken, aw, root, report>>

\* MigrationPipeline.load(migration_id): a second object for the same
\* directory, with a lock of its own
LoadPipeline(t) ==
    /\ th[t].pc = "idle"
    /\ manifest.exists
    /\ "loaded" \notin objs
    /\ objs' = objs \cup {"loaded"}
    /\ UNCHANGED <<manifest, docs, seams, features, plan, tags, meta, lock, th, clock,
                   last, done, probe, repo, broken, aw, root, report>>

\* a gate inspection that replaces an unreadable features.json by an empty list
InspectGateHealing(from_phase, to_phase) ==
    /\ probe' = [from_phase |-> from_phase, to_phase |-> to_phase,
                 unlocked   |-> CheckPhaseGateUnlocked(from_phase, to_phase),
                 standalone |-> CheckPhaseGate(from_phase, to_phase)]
    /\ features' = IF features.kind = "badjson" THEN Doc("list", <<>>) ELSE features
    /\ UNCHANGED <<manifest, docs, seams, plan, tags, meta, objs, lock, th,
                   clock, last, done, repo, broken, aw, root, report>>

\* a gate inspection through both paths on the same artifacts
InspectGate(from_phase, to_phase) ==
    /\ probe' = [from_phase |-> from_phase, to_phase |-> to_phase,
                 unlocked   |-> CheckPhaseGateUnlocked(from_phase, to_phase),
                 standalone |-> CheckPhaseGate(from_phase, to_phase)]
    /\ UNCHANGED <<manifest, docs, seams, features, plan, tags, meta, objs, lock, th,
                   clock, last, done, repo, broken, aw, root, report>>

-----------------------------------------------------------------------------
(* Specifications *)

NoProbe ==
    [from_phase |-> None, to_phase |-> None, unlocked |-> NoVerdict, standalone |-> NoVerdict]

\* the state after MigrationPipeline.__init__: the directories exist, nothing else
Init ==
    /\ manifest = NoManifest
    /\ docs = "empty"
    /\ seams = Absent
    /\ features = Absent
    /\ plan = Absent
    /\ tags = {}
    /\ meta = {}
    /\ objs = {"ctor"}
    /\ lock = [o \in Objects |-> NoThread]
    /\ th = [t \in Threads |-> Idle]
    /\ clock = 1
    /\ last = NoCall
    /\ done = {}
    /\ probe = NoProbe
    /\ repo = NoRepo
    /\ broken = {}
    /\ aw = NoWrite
    /\ root = NoEntries
    /\ report = NoReport

\* the state after create_manifest and after the upstream analysis wrote every
\* artifact the gates read (all features passing, all steps completed)
InitReady ==
    /\ manifest = InitialManifest(1)
    /\ docs = "nonempty"
    /\ seams = Doc("list", <<>>)
    /\ features = Doc("list", <<Feature(1, TRUE)>>)
    /\ plan = Doc("plan", <<MigrationStep(1, "completed")>>)
    /\ tags = {}
    /\ meta = {}
    /\ objs = {"ctor"}
    /\ lock = [o \in Objects |-> NoThread]
    /\ th = [t \in Threads |-> Idle]
    /\ clock = 1
    /\ last = NoCall
    /\ done = {}
    /\ probe = NoProbe
    /\ repo = NoRepo
    /\ broken = {}
    /\ aw = NoWrite
    /\ root = NoEntries
    /\ report = NoReport

\* the manifest calls threads T make: start_phase and advance_phase with a
\* phase of P, create_checkpoint with a step id of S (its except branch, which
\* only a missing manifest enters, is a disjunct of Next)
Calls(T, P, S) ==
    \/ \E t \in T, o \in Objects, phase \in P : StartPhaseBegin(t, o, phase)
    \/ \E t \in T : StartPhaseCommit(t)
    \/ \E t \in T, o \in Objects, phase \in P : AdvanceBegin(t, o, phase)
    \/ \E t \in T : AdvanceLoad(t)
    \/ \E t \in T : AdvanceCommit(t)
    \/ \E t \in T, o \in Objects, step_id \in S : CheckpointTag(t, o, step_id)
    \/ \E t \in T : CheckpointLoad(t)
    \/ \E t \in T : CheckpointSave(t)
    \/ \E t \in T : CheckpointMeta(t)

\* the artifact writers
Writers(T) ==
    \/ \E t \in T, o \in Objects, items \in SavedFeatures : SaveFeatures(t, o, items)
    \/ \E t \in T, o \in Objects, items \in SavedPlans : SavePlan(t, o, items)
    \/ \E t \in T, o \in Objects : SaveSeams(t, o)
    \/ WriteDocs

\* one caller on one pipeline object, create_manifest being called once
Next ==
    \/ \E o \in Objects : ~manifest.exists /\ CreateManifest("t1", o)
    \/ Calls({"t1"}, PhaseArgs, {"s1", "s 1;rm"})
    \/ CheckpointCompensate("t1")
    \/ Writers({"t1"})

Spec == Init /\ [][Next]_vars

\* one caller on one pipeline object while time passes
NextClock == Calls({"t1"}, Phases, {"s1"}) \/ Tick

SpecClock == InitReady /\ [][NextClock]_vars

\* concurrent callers on one pipeline object
NextThreads == Calls(Threads, Phases, StepIds)

SpecThreads == InitReady /\ [][NextThreads]_vars

\* concurrent callers on two pipeline objects of one migration_id
NextObjs ==
    \/ Calls(Threads, {"understand", "guardrail"}, StepIds)
    \/ \E t \in Threads : LoadPipeline(t)

SpecObjs == InitReady /\ [][NextObjs]_vars

\* one caller creating checkpoints and rolling back while commits land, the
\* tree is edited, and the disk or git start to fail
NextRepo ==
    \/ \E o \in Objects, step_id \in StepArgs : CheckpointTag("t1", o, step_id)
    \/ CheckpointLoad("t1")
    \/ CheckpointSave("t1")
    \/ CheckpointCompensate("t1")
    \/ CheckpointMeta("t1")
    \/ \E o \in Objects, step_id \in StepArgs : RollbackBegin("t1", o, step_id)
    \/ RollbackReset("t1")
    \/ Commit
    \/ EditTree
    \/ \E what \in {"disk", "git"} : Break(what)

SpecRepo == InitReady /\ [][NextRepo]_vars

\* _atomic_write calls on one target file, one after the other, every step
\* of each able to fail
NextWrite ==
    \/ \E content \in Contents : AtomicWriteCall(content)
    \/ \E ok \in BOOLEAN : AtomicWriteMkdir(ok)
    \/ \E ok \in BOOLEAN : AtomicWriteMkstemp(ok)
    \/ \E outcome \in {"all", "short", "error"} : AtomicWriteWrite(outcome)
    \/ \E ok \in BOOLEAN : AtomicWriteFsync(ok)
    \/ \E ok \in BOOLEAN : AtomicWriteRename(ok)
    \/ \E ok \in BOOLEAN : AtomicWriteCleanup(ok)
    \/ AtomicWriteKilled

SpecWrite == Init /\ [][NextWrite]_vars

\* the feature lists and step lists of at most n items, item i having id i
FeatureLists(n) ==
    UNION {{[i \in 1..k |-> Feature(i, f[i])] : f \in [1..k -> BOOLEAN]} : k \in 0..n}

StepStatuses == {"pending", "in_progress", "completed", "failed"}

StepLists(n) ==
    UNION {{[i \in 1..k |-> MigrationStep(i, f[i])] : f \in [1..k -> StepStatuses]} : k \in 0..n}

\* every state of features.json and migration-plan.json the gates tell apart
FeatureDocs ==
    {Doc(kind, <<>>) : kind \in {"absent", "badjson", "scalar", "nondict_item",
                                  "missing_id", "nokey", "string_passes"}}
    \cup {Doc(kind, items) : kind \in {"list", "wrapped"}, items \in FeatureLists(MaxItems)}

PlanDocs ==
    {Doc(kind, <<>>) : kind \in {"absent", "badjson", "nonobject", "steps_scalar",
                                  "nondict_item", "missing_id", "nosteps"}}
    \cup {Doc("plan", items) : items \in StepLists(MaxItems)}

\* a migration directory in any state, no call in progress
InitGate ==
    /\ manifest = InitialManifest(1)
    /\ docs \in {"absent", "empty", "nonempty"}
    /\ seams \in {Absent, Doc("list", <<>>), Doc("badjson", <<>>)}
    /\ features \in FeatureDocs
    /\ plan \in PlanDocs
    /\ tags = {}
    /\ meta = {}
    /\ objs = {"ctor"}
    /\ lock = [o \in Objects |-> NoThread]
    /\ th = [t \in Threads |-> Idle]
    /\ clock = 1
    /\ last = NoCall
    /\ done = {}
    /\ probe = NoProbe
    /\ repo = NoRepo
    /\ broken = {}
    /\ aw = NoWrite
    /\ root = NoEntries
    /\ report = NoReport

\* one inspection of one phase pair per run
NextGate ==
    \E from_phase \in PhaseArgs, to_phase \in PhaseArgs :
        probe = NoProbe /\ InspectGate(from_phase, to_phase)

\* gate inspections over every state of the artifacts
SpecGate == InitGate /\ [][NextGate]_vars

\* features.json in every state the gates tell apart, its lists long enough
\* to exceed what a failure reason reports
LongFeatureDocs ==
    {Doc(kind, <<>>) : kind \in {"absent", "badjson", "scalar", "nondict_item",
                                  "missing_id", "nokey", "string_passes"}}
    \cup {Doc(kind, items) : kind \in {"list", "wrapped"},
                             items \in FeatureLists(MaxFeatures)}

\* a migration directory whose features.json is in any state, the other
\* artifacts in place
InitFeatures ==
    /\ manifest = InitialManifest(1)
    /\ docs = "nonempty"
    /\ seams = Doc("list", <<>>)
    /\ features \in LongFeatureDocs
    /\ plan = Doc("plan", <<MigrationStep(1, "completed")>>)
    /\ tags = {}
    /\ meta = {}
    /\ objs = {"ctor"}
    /\ lock = [o \in Objects |-> NoThread]
    /\ th = [t \in Threads |-> Idle]
    /\ clock = 1
    /\ last = NoCall
    /\ done = {}
    /\ probe = NoProbe
    /\ repo = NoRepo
    /\ broken = {}
    /\ aw = NoWrite
    /\ root = NoEntries
    /\ report = NoReport

\* gate inspections over every state of features.json
SpecFeatures == InitFeatures /\ [][NextGate]_vars

\* migration-plan.json in every state the gates tell apart, its step lists
\* long enough to exceed what a failure reason reports
LongPlanDocs ==
    {Doc(kind, <<>>) : kind \in {"absent", "badjson", "nonobject", "steps_scalar",
                                  "nondict_item", "missing_id", "nosteps"}}
    \cup {Doc("plan", items) : items \in StepLists(MaxSteps)}

\* a migration directory whose migration-plan.json is in any state, the other
\* artifacts in place
InitPlan ==
    /\ manifest = InitialManifest(1)
    /\ docs = "nonempty"
    /\ seams = Doc("list", <<>>)
    /\ features = Doc("list", <<Feature(1, TRUE)>>)
    /\ plan \in LongPlanDocs
    /\ tags = {}
    /\ meta = {}
    /\ objs = {"ctor"}
    /\ lock = [o \in Objects |-> NoThread]
    /\ th = [t \in Threads |-> Idle]
    /\ clock = 1
    /\ last = NoCall
    /\ done = {}
    /\ probe = NoProbe
    /\ repo = NoRepo
    /\ broken = {}
    /\ aw = NoWrite
    /\ root = NoEntries
    /\ report = NoReport

\* gate inspections over every state of migration-plan.json
SpecPlan == InitPlan /\ [][NextGate]_vars

\* the states of the migrations root: every kind of entry under the two
\* well-formed names (the name ending in a newline absent or a migration),
\* and every combination of phase statuses in one manifest
Roots ==
    {<<Entry(ka, IF ka = "valid" THEN FreshPhases ELSE NoPhases),
       Entry(kn, IF kn = "valid" THEN FreshPhases ELSE NoPhases),
       Entry(kb, IF kb = "valid" THEN FreshPhases ELSE NoPhases)>> :
         ka \in EntryKinds, kn \in {"none", "valid"}, kb \in EntryKinds}
    \cup {<<Entry("valid", phases), Entry("none", NoPhases), Entry("none", NoPhases)>> :
             phases \in [Phases -> EntryStatuses]}

\* a migrations root in any state beside the directory of a fresh pipeline
InitRegistry ==
    /\ manifest \in {NoManifest, InitialManifest(1)}
    /\ docs = "empty"
    /\ seams = Absent
    /\ features = Absent
    /\ plan = Absent
    /\ tags = {}
    /\ meta = {}
    /\ objs = {"ctor"}
    /\ lock = [o \in Objects |-> NoThread]
    /\ th = [t \in Threads |-> Idle]
    /\ clock = 1
    /\ last = NoCall
    /\ done = {}
    /\ probe = NoProbe
    /\ repo = NoRepo
    /\ broken = {}
    /\ aw = NoWrite
    /\ root \in Roots
    /\ report = NoReport

\* one load or one list_migrations per run
NextRegistry ==
    \/ \E migration_id \in MigrationIds : report = NoReport /\ Load(migration_id)
    \/ report = NoReport /\ ListMigrations

SpecRegistry == InitRegistry /\ [][NextRegistry]_vars

\* every state of seams.json load_seams tells apart
SeamsDocs ==
    {Doc(kind, <<>>) : kind \in {"absent", "badjson", "scalar", "nondict_item",
                                  "missing_id", "nokey", "list", "wrapped"}}
    \cup {Doc(kind, <<[id |-> 1]>>) : kind \in {"list", "wrapped"}}

\* the manifest of a migration whose phases hold the statuses st and whose
\* checkpoint list names the steps of ids, in order
ManifestWith(st, ids) ==
    [exists      |-> TRUE,
     created_at  |-> 1,
     phases      |-> [phase \in Phases |->
                        [status |-> st[phase], started_at |-> 0, completed_at |-> 0]],
     checkpoints |-> [i \in 1..Len(ids) |-> TagName(ids[i])]]

\* a migration directory for the progress report: every combination of phase
\* statuses with the artifacts absent; every state of features.json,
\* migration-plan.json, the checkpoint list and the checkpoint metadata in a
\* fresh migration; every state of seams.json
InitProgress ==
    /\ \/ /\ manifest \in {ManifestWith(st, <<>>) : st \in [Phases -> EntryStatuses]}
          /\ features = Absent
          /\ plan = Absent
          /\ seams = Absent
          /\ meta = {}
       \/ /\ manifest \in {ManifestWith(FreshPhases, ids) :
                              ids \in {<<>>, <<"s1">>, <<"s1", "s2">>, <<"s2", "s1">>}}
          /\ features \in FeatureDocs
          /\ plan \in PlanDocs
          /\ seams = Absent
          /\ meta \in SUBSET StepIds
       \/ /\ manifest = ManifestWith(FreshPhases, <<>>)
          /\ features = Absent
          /\ plan = Absent
          /\ seams \in SeamsDocs
          /\ meta = {}
    /\ docs = "nonempty"
    /\ tags = {manifest.checkpoints[i][2] : i \in 1..Len(manifest.checkpoints)}
    /\ objs = {"ctor"}
    /\ lock = [o \in Objects |-> NoThread]
    /\ th = [t \in Threads |-> Idle]
    /\ clock = 1
    /\ last = NoCall
    /\ done = {}
    /\ probe = NoProbe
    /\ repo = NoRepo
    /\ broken = {}
    /\ aw = NoWrite
    /\ root = NoEntries
    /\ report = NoReport

\* one progress report or one artifact load per run
NextProgress ==
    \/ report = NoReport /\ GetProgress
    \/ \E artifact \in {"features", "plan", "seams"} :
           report = NoReport /\ LoadArtifact(artifact)

SpecProgress == InitProgress /\ [][NextProgress]_vars

\* the seams lists callers hold: files is a list, or a tuple of the same names
SeamLists(n) ==
    UNION {{[i \in 1..k |-> [id |-> i, files |-> f[i]]] :
              f \in [1..k -> {ListOf(<<>>), ListOf(<<"a.py">>), TupleOf(<<"a.py">>)}]} :
           k \in 0..n}

\* the lists save_features, save_plan and save_seams are called with
SavedLists(artifact) ==
    CASE artifact = "features" -> FeatureLists(MaxItems)
      [] artifact = "plan" -> StepLists(MaxItems)
      [] artifact = "seams" -> SeamLists(MaxItems)

\* the items of a document written by another tool: each as saved, or with a
\* key the dataclass does not know
WithUnknownKey(items) == [i \in 1..Len(items) |-> items[i] @@ [owner |-> "team"]]

ForeignItems(artifact) ==
    {Serialized(items) : items \in SavedLists(artifact)}
    \cup {WithUnknownKey(Serialized(items)) : items \in SavedLists(artifact)}

\* a migration directory holding one artifact, as a bare array or wrapped
\* under its key (the plan always as an object with steps)
InitRoundTrip ==
    /\ \/ /\ features \in {Doc(kind, items) : kind \in {"list", "wrapped"},
                                                items \in ForeignItems("features")}
          /\ plan = Absent
          /\ seams = Absent
       \/ /\ features = Absent
          /\ plan \in {Doc("plan", items) : items \in ForeignItems("plan")}
          /\ seams = Absent
       \/ /\ features = Absent
          /\ plan = Absent
          /\ seams \in {Doc(kind, items) : kind \in {"list", "wrapped"},
                                             items \in ForeignItems("seams")}
    /\ manifest = InitialManifest(1)
    /\ docs = "nonempty"
    /\ tags = {}
    /\ meta = {}
    /\ objs = {"ctor"}
    /\ lock = [o \in Objects |-> NoThread]
    /\ th = [t \in Threads |-> Idle]
    /\ clock = 1
    /\ last = NoCall
    /\ done = {}
    /\ probe = NoProbe
    /\ repo = NoRepo
    /\ broken = {}
    /\ aw = NoWrite
    /\ root = NoEntries
    /\ report = NoReport

\* a load of what is on disk, or a save followed by a load
NextRoundTrip ==
    \/ \E artifact \in {"features", "plan", "seams"} :
           report.op # "load_artifact" /\ LoadArtifact(artifact)
    \/ \E artifact \in {"features", "plan", "seams"} :
           \E items \in SavedLists(artifact) :
               report = NoReport /\ SaveArtifact(artifact, items)

SpecRoundTrip == InitRoundTrip /\ [][NextRoundTrip]_vars

-----------------------------------------------------------------------------
(* Properties *)

Status(m, phase) == m.phases[phase].status

Rank(status) == CASE status = "pending" -> 0 [] status = "in_progress" -> 1 [] OTHER -> 2

NonTerminal == {phase \in Phases : NextPhase(phase) # None}

Listed(m) == {m.checkpoints[i] : i \in 1..Len(m.checkpoints)}

\* thread t's advance_phase / start_phase call saves (or raises) and returns in this step
Commits(t, op) == th[t].pc = "loaded" /\ th[t].op = op /\ th'[t].pc = "idle"

\* C1: every phase's persisted status only moves pending -> in_progress ->
\* completed: no write lowers a status and none takes pending to completed.
PhaseStatusMonotonic ==
    [][(manifest.exists /\ manifest'.exists) =>
         \A phase \in Phases :
            /\ Rank(Status(manifest', phase)) >= Rank(Status(manifest, phase))
            /\ ~(Status(manifest, phase) = "pending" /\ Status(manifest', phase) = "completed")]_vars

\* C2: at most one phase is in_progress, and it is the first non-completed
\* phase: every earlier phase is completed, every later phase pending.
SingleActivePhase ==
    manifest.exists =>
        \A phase \in Phases :
            Status(manifest, phase) = "in_progress" =>
                \A other \in Phases \ {phase} :
                    Status(manifest, other) =
                        IF PhaseIndex(other) < PhaseIndex(phase) THEN "completed" ELSE "pending"

\* C3: advance_phase(p) changes the manifest exactly when p was in_progress
\* and p has no successor or its gate passed; otherwise it raises and the
\* manifest on disk is what it was.
AdvanceMutatesIffAllowed ==
    last.op = "advance_phase" =>
        /\ last.changed <=> (last.before = "in_progress" /\ last.allowed)
        /\ last.changed => last.raised = None /\ last.wrote
        /\ ~last.changed => last.raised # None /\ ~last.wrote

AdvanceBlockedReached ==
    /\ last.op = "advance_phase"
    /\ last.before = "in_progress"
    /\ ~last.allowed
    /\ last.raised = "RuntimeError"
    /\ ~last.changed

\* C4: the write of a successful advance_phase(p) carries both `p completed`
\* and `successor in_progress`: no manifest on disk has p completed with its
\* successor still pending, and no write makes one of the two changes alone.
AtomicPublish ==
    [][/\ manifest'.exists =>
            \A phase \in NonTerminal :
                Status(manifest', phase) = "completed" =>
                    Status(manifest', NextPhase(phase)) # "pending"
       /\ \A t \in Threads :
            (Commits(t, "advance_phase") /\ th[t].arg \in NonTerminal /\ manifest' # manifest) =>
                /\ Status(manifest, th[t].arg) = "in_progress"
                /\ Status(manifest', th[t].arg) = "completed"
                /\ Status(manifest', NextPhase(th[t].arg)) = "in_progress"]_vars

AdvancePublished ==
    /\ last.op = "advance_phase"
    /\ last.changed
    /\ Status(manifest, "understand") = "completed"
    /\ Status(manifest, "guardrail") = "in_progress"

\* C5: start_phase(p) on a phase already in_progress returns without error,
\* saves nothing and leaves every manifest field, started_at included, as it was.
StartPhaseIdempotent ==
    (last.op = "start_phase" /\ last.before = "in_progress") =>
        /\ last.raised = None
        /\ ~last.wrote
        /\ ~last.changed

StartRepeatedLater ==
    /\ last.op = "start_phase"
    /\ last.before = "in_progress"
    /\ \E phase \in Phases :
        /\ Status(manifest, phase) = "in_progress"
        /\ manifest.phases[phase].started_at < clock

\* C6: start_phase(p) on a completed phase raises the illegal-transition
\* error and leaves the manifest unchanged.
StartCompletedRejected ==
    (last.op = "start_phase" /\ last.before = "completed") =>
        /\ last.raised = "RuntimeError"
        /\ ~last.wrote
        /\ ~last.changed

StartCompletedReached ==
    /\ last.op = "start_phase"
    /\ last.before = "completed"

\* C7: the manifest create_manifest writes has understand in_progress with a
\* start timestamp, the other phases pending without one, no completion
\* timestamp and no checkpoint.
InitialManifestShape ==
    [][(~manifest.exists /\ manifest'.exists) =>
         /\ \A phase \in Phases :
              /\ Status(manifest', phase) =
                    IF phase = "understand" THEN "in_progress" ELSE "pending"
              /\ (manifest'.phases[phase].started_at # 0) <=> (phase = "understand")
              /\ manifest'.phases[phase].completed_at = 0
         /\ manifest'.checkpoints = <<>>]_vars

ManifestCreated ==
    /\ last.op = "create_manifest"
    /\ manifest.exists

\* C8: check_phase_gate and _check_phase_gate_unlocked give the same outcome
\* on every phase pair and every state of the artifacts.
GatePathsAgree ==
    probe.unlocked = probe.standalone

\* C9: on one pipeline no manifest update is lost: the manifest a thread
\* loaded is the one on disk until that thread saves, and the tag of every
\* create_checkpoint that returned is in the checkpoint list.
NoLostUpdate ==
    /\ \A t \in Threads : th[t].pc = "loaded" => th[t].local = manifest
    /\ \A step_id \in done : TagName(step_id) \in Listed(manifest)

ConcurrentCheckpointsKept ==
    /\ \A t \in Threads : th[t].pc = "saved"
    /\ th["t1"].arg # th["t2"].arg
    /\ \A t \in Threads : TagName(th[t].arg) \in Listed(manifest)
    /\ Status(manifest, "understand") = "completed"

\* C10: read-modify-write sequences on one migration's manifest exclude each
\* other whichever pipeline objects they go through, so the tag of every
\* create_checkpoint that returned is in that manifest's checkpoint list.
UpdatesKeptAcrossObjects ==
    \A step_id \in done : TagName(step_id) \in Listed(manifest)

-----------------------------------------------------------------------------
(* Checkpoints and rollback *)

\* no call is in progress
Quiescent == \A t \in Threads : th[t].pc = "idle"

\* the number of entries of the manifest's checkpoint list equal to tag
Entries(m, tag) ==
    Cardinality({i \in 1..Len(m.checkpoints) : m.checkpoints[i] = tag})

\* thread t is inside a checkpoint call, past the step id validation
PastValidation(t) == th[t].op \in {"create_checkpoint", "rollback_to_checkpoint"}

\* C11: whenever no call is in progress, every entry of the manifest's
\* checkpoint list names a step with exactly one existing git tag and exactly
\* one existing metadata file, also after calls that failed at any step
CheckpointsBacked ==
    Quiescent =>
        \A i \in 1..Len(manifest.checkpoints) :
            \E s \in StepIds :
                /\ manifest.checkpoints[i] = TagName(s)
                /\ s \in tags
                /\ s \in meta

\* C12 as stated: when create_checkpoint leaves through its except branch, the
\* tag it created no longer exists and the checkpoint list does not hold it
CompensationDeletesTag ==
    [][\A t \in Threads :
          (th[t].pc = "compensate" /\ th'[t].pc = "idle") =>
              /\ th[t].arg \notin tags'
              /\ TagName(th[t].arg) \notin Listed(manifest')]_vars

\* C12 amended: when create_checkpoint leaves through its except branch, the
\* checkpoint list does not hold the tag it created, the exception of the
\* manifest update is the one raised, and the tag no longer exists provided
\* the tag deletion itself succeeded (it is best effort: when git fails
\* again, the tag stays)
CompensationBestEffort ==
    [][\A t \in Threads :
          (th[t].pc = "compensate" /\ th'[t].pc = "idle") =>
              /\ TagName(th[t].arg) \notin Listed(manifest')
              /\ manifest' = manifest
              /\ last'.raised = th[t].gate.raised
              /\ "git" \notin broken => th[t].arg \notin tags'
              /\ "git" \in broken => tags' = tags]_vars

\* a create_checkpoint whose manifest save failed has returned, its tag deleted
CompensationReached ==
    /\ last.op = "create_checkpoint"
    /\ last.raised = "OSError"
    /\ ~last.wrote
    /\ tags = {}
    /\ "git" \notin broken
    /\ Quiescent

\* C13: a create_checkpoint passes its git tag only when the tag did not
\* exist and git succeeded; one that returns there raised RuntimeError (or
\* ValueError for a rejected step id) and changed neither the manifest, nor
\* the metadata files, nor the tags; no tag is listed twice
TagFailureLeavesNoTrace ==
    [][/\ \A t \in Threads :
            (th[t].pc = "idle" /\ th'[t].pc = "tagged") =>
                /\ th'[t].arg \notin tags
                /\ "git" \notin broken
                /\ tags' = tags \cup {th'[t].arg}
       /\ (th' = th /\ last' # last /\ last'.op = "create_checkpoint") =>
                /\ last'.raised \in {"RuntimeError", "ValueError"}
                /\ UNCHANGED <<manifest, meta, tags, done>>
       /\ \A s \in StepIds : Entries(manifest', TagName(s)) <= 1
       /\ \A s \in done' : Entries(manifest', TagName(s)) = 1]_vars

\* with git working, a create_checkpoint failed at its git tag while both
\* step ids are checkpointed: the tag existed, and each tag is listed once
DuplicateCheckpointRefused ==
    /\ last.op = "create_checkpoint"
    /\ last.raised = "RuntimeError"
    /\ ~last.changed
    /\ "git" \notin broken
    /\ done = StepIds
    /\ Len(manifest.checkpoints) = 2

\* C14: git tag points the new tag at the head of that moment, a tag that
\* stays keeps its commit, and a rollback_to_checkpoint(s) that returns
\* normally leaves the head at the commit tag s points to, the tree clean
RollbackRoundTrip ==
    [][\A t \in Threads :
          /\ (th[t].pc = "idle" /\ th'[t].pc = "tagged") =>
                 repo'.target[th'[t].arg] = repo.head
          /\ \A s \in tags \cap tags' : repo'.target[s] = repo.target[s]
          /\ (th[t].pc = "resetting" /\ th'[t].pc = "idle" /\ last'.raised = None) =>
                 /\ th[t].arg \in tags
                 /\ repo'.head = repo.target[th[t].arg]
                 /\ ~repo'.dirty]_vars

\* a rollback returned normally and moved the head back from later commits
\* to the commit the checkpoint was taken at
RolledBack ==
    /\ last.op = "rollback_to_checkpoint"
    /\ last.raised = None
    /\ "s1" \in done
    /\ repo.head = repo.target["s1"]
    /\ repo.head < repo.commits
    /\ Cardinality(tags) = 2

\* C15: a step id that is empty or holds a character outside [a-zA-Z0-9_-]
\* never gets past the validation of create_checkpoint and
\* rollback_to_checkpoint: no call is past it with such an id
StepIdCheckedFirst ==
    \A t \in Threads : PastValidation(t) => OnlySafeChars(StepChars(th[t].arg))

\* C16: a rollback_to_checkpoint whose tag does not exist or whose git reset
\* fails raises RuntimeError and leaves the repository as it was; one that
\* returns normally has its tag and has reset the head to it
RollbackNeverSilent ==
    [][\A t \in Threads :
          (th[t].pc = "resetting" /\ th'[t].pc = "idle") =>
              /\ (th[t].arg \notin tags \/ "git" \in broken) =>
                     (last'.raised = "RuntimeError" /\ repo' = repo)
              /\ last'.raised = None =>
                     /\ th[t].arg \in tags
                     /\ "git" \notin broken
                     /\ repo'.head = repo.target[th[t].arg]]_vars

\* a rollback to a step that has no tag has raised, the head past the first commit
RollbackRefused ==
    /\ last.op = "rollback_to_checkpoint"
    /\ last.raised = "RuntimeError"
    /\ tags = {}
    /\ "git" \notin broken
    /\ repo.head = 2
    /\ Quiescent

-----------------------------------------------------------------------------
(* _atomic_write *)

\* C17: at every moment the target file holds the whole content it had
\* before the _atomic_write call or the whole new content, and the whole new
\* content once the call has returned normally
AtomicReplace ==
    /\ aw.file \in {aw.prior, Holding(aw.content, TRUE)}
    /\ (aw.pc = "idle" /\ aw.raised = None /\ aw.content # None) =>
           aw.file = Holding(aw.content, TRUE)

\* C18: when _atomic_write has left by an exception, its temp file is gone
\* and the target file holds what it held before the call
TempRemovedOnFailure ==
    (aw.pc = "idle" /\ aw.raised \notin {None, "killed"}) =>
        /\ ~aw.tmp.exists
        /\ aw.file = aw.prior

-----------------------------------------------------------------------------
(* Phase gates *)

\* the outcomes of the two gate functions in the last inspection
ProbeOutcomes == {probe.unlocked, probe.standalone}

\* C19: for every pair of known phases in which the second is not the
\* immediate successor of the first, both gate functions answer not allowed
\* with the "Cannot jump" reason, whatever the artifacts hold
AdjacencyEnforced ==
    (/\ probe.from_phase \in Phases
     /\ probe.to_phase \in Phases
     /\ PhaseIndex(probe.to_phase) # PhaseIndex(probe.from_phase) + 1) =>
        \A v \in ProbeOutcomes : v = Verdict(FALSE, "Cannot jump", 0, <<>>)

\* the gate refused to skip from understand to migrate although the artifacts
\* of both gates on the way are in place
SkipRefused ==
    /\ probe.from_phase = "understand"
    /\ probe.to_phase = "migrate"
    /\ DocsGate.allowed
    /\ features = Doc("list", <<Feature(1, TRUE)>>)
    /\ probe.unlocked.reason = "Cannot jump"
    /\ probe.standalone.reason = "Cannot jump"

\* features.json exists, parses, and every item is a feature with a boolean passes
WellFormedFeatures == features.kind \in {"list", "wrapped"}

\* the features of features.json whose passes is not true, in document order
NonPassing == SelectSeq(features.items, LAMBDA f : f.passes # TRUE)

\* C20: the guardrail -> migrate gate is passed exactly when features.json
\* exists, parses, holds at least one feature and every feature has passes =
\* true; when n >= 1 features are not passing, the verdict counts n and lists
\* the ids of the first min(5, n) of them in document order, and no others
FeaturesGateExact ==
    (probe.from_phase = "guardrail" /\ probe.to_phase = "migrate") =>
        \A v \in ProbeOutcomes :
            /\ (v.raised = None /\ v.allowed) <=>
                   /\ WellFormedFeatures
                   /\ Len(features.items) >= 1
                   /\ Len(NonPassing) = 0
            /\ (WellFormedFeatures /\ Len(NonPassing) >= 1) =>
                   /\ v.raised = None
                   /\ ~v.allowed
                   /\ v.reason = "tests not passing"
                   /\ v.count = Len(NonPassing)
                   /\ Len(v.ids) = (IF Len(NonPassing) < 5 THEN Len(NonPassing) ELSE 5)
                   /\ \A i \in 1..Len(v.ids) : v.ids[i] = NonPassing[i].id

\* migration-plan.json exists and parses into a plan with its steps
WellFormedPlan == plan.kind \in {"plan", "nosteps"}

\* the steps of migration-plan.json whose status is not "completed", in plan order
Incomplete == SelectSeq(plan.items, LAMBDA s : s.status \in {"pending", "in_progress", "failed"})

\* C21: the migrate -> verify gate is passed exactly when migration-plan.json
\* exists, parses and every step has status "completed" (pending, in_progress
\* and failed steps block); when n >= 1 steps are incomplete, the verdict
\* counts n and lists the ids of the first min(5, n) of them in plan order
PlanGateExact ==
    (probe.from_phase = "migrate" /\ probe.to_phase = "verify") =>
        \A v \in ProbeOutcomes :
            /\ (v.raised = None /\ v.allowed) <=>
                   /\ WellFormedPlan
                   /\ \A i \in 1..Len(plan.items) : plan.items[i].status = "completed"
            /\ (WellFormedPlan /\ Len(Incomplete) >= 1) =>
                   /\ v.raised = None
                   /\ ~v.allowed
                   /\ v.reason = "steps not completed"
                   /\ v.count = Len(Incomplete)
                   /\ Len(v.ids) = (IF Len(Incomplete) < 5 THEN Len(Incomplete) ELSE 5)
                   /\ \A i \in 1..Len(v.ids) : v.ids[i] = Incomplete[i].id

\* the gate was refused on a plan with six incomplete steps of all three
\* kinds, and named the first five
SixIncompleteFiveNamed ==
    /\ probe.from_phase = "migrate"
    /\ probe.to_phase = "verify"
    /\ Len(Incomplete) = 6
    /\ {"pending", "in_progress", "failed"} \subseteq {Incomplete[i].status : i \in 1..6}
    /\ probe.unlocked.count = 6
    /\ probe.unlocked.ids = <<1, 2, 3, 4, 5>>
    /\ probe.standalone.ids = <<1, 2, 3, 4, 5>>

\* C22: the understand -> guardrail gate is passed exactly when docs/ exists
\* and is non-empty and seams.json exists; with docs/ missing or empty the
\* reason names the documentation, with docs/ non-empty and seams.json
\* missing it names seams.json
DocsGateExact ==
    (probe.from_phase = "understand" /\ probe.to_phase = "guardrail") =>
        \A v \in ProbeOutcomes :
            /\ v.raised = None
            /\ v.allowed <=> (docs = "nonempty" /\ seams # Absent)
            /\ docs \in {"absent", "empty"} => v.reason = "no documentation"
            /\ (docs = "nonempty" /\ seams = Absent) => v.reason = "seams.json does not exist"

\* the gate was passed with a seams.json that exists and does not parse
DocsGatePassed ==
    /\ probe.from_phase = "understand"
    /\ probe.to_phase = "guardrail"
    /\ docs = "nonempty"
    /\ seams = Doc("badjson", <<>>)
    /\ probe.unlocked.allowed
    /\ probe.standalone.allowed

\* manifest.json exists under the name: the name is a directory that holds it
ManifestExists(entry) == entry.kind \notin {"none", "file", "empty"}

\* C23 as stated: for every well-formed migration_id, load succeeds exactly
\* when manifest.json exists under it, and every failure is the not-found one.
LoadIffManifestExists ==
    (report.op = "load" /\ IdPattern(report.migration_id)) =>
        /\ report.raised = None <=> ManifestExists(EntryAt(report.migration_id))
        /\ report.raised \in {None, "FileNotFoundError"}

\* C23: for every well-formed migration_id, load fails with the not-found
\* error exactly when manifest.json does not exist under it; when it exists,
\* load succeeds exactly when the file parses as a JSON object, and otherwise
\* fails with the error of the parse or of the first field access.
LoadOutcomes ==
    (report.op = "load" /\ IdPattern(report.migration_id)) =>
        LET entry == EntryAt(report.migration_id) IN
        /\ report.raised = "FileNotFoundError" <=> ~ManifestExists(entry)
        /\ report.raised = None <=> entry.kind \in {"valid", "badphases"}
        /\ entry.kind = "badjson" => report.raised = "JSONDecodeError"
        /\ entry.kind = "badutf8" => report.raised = "UnicodeDecodeError"
        /\ entry.kind = "nonobject" => report.raised = "AttributeError"

CorruptManifestLoaded ==
    /\ report.op = "load"
    /\ report.migration_id = IdB
    /\ root[3].kind = "badjson"
    /\ report.raised = "JSONDecodeError"
    /\ report.probed

\* C24: load answers every migration_id that is not of the form
\* mig_<8 digits>_<6 digits>_<name> with the invalid-argument error, without
\* having looked at the migrations root.
MalformedRejectedUnprobed ==
    (report.op = "load" /\ ~IdPattern(report.migration_id)) =>
        /\ report.raised = "ValueError"
        /\ ~report.probed

\* in_progress if any phase is, else completed if any phase is, else pending
ByPriority(phases) ==
    IF \E phase \in Phases : phases[phase] = "in_progress" THEN "in_progress"
    ELSE IF \E phase \in Phases : phases[phase] = "completed" THEN "completed"
    ELSE "pending"

\* C28: every entry list_migrations returns carries the status its four
\* phase statuses give by priority in_progress > completed > pending, a phase
\* missing from the manifest counting as pending.
RegistryStatusByPriority ==
    (report.op = "list_migrations" /\ report.raised = None) =>
        \A i \in 1..Len(report.entries) :
            report.entries[i].status = ByPriority(EntryAt(report.entries[i].id).phases)

CompletedAfterInProgressListed ==
    /\ report.op = "list_migrations"
    /\ report.raised = None
    /\ root[1].kind = "valid"
    /\ root[1].phases["understand"] = "in_progress"
    /\ root[1].phases["guardrail"] = "missing"
    /\ root[1].phases["migrate"] = "failed"
    /\ root[1].phases["verify"] = "completed"
    /\ report.entries[1] = [id |-> IdA, status |-> "in_progress"]

\* C29: list_migrations never raises, and returns one entry for each
\* directory whose manifest.json is a manifest and for no other name.
ListingResilient ==
    report.op = "list_migrations" =>
        /\ report.raised = None
        /\ \A i \in 1..Len(ListedNames) :
               (EntryAt(ListedNames[i]).kind = "valid") <=>
                   Cardinality({j \in 1..Len(report.entries) :
                                  report.entries[j].id = ListedNames[i]}) = 1

\* the last checkpoint's metadata file is missing
MetaMissing ==
    /\ manifest.checkpoints # <<>>
    /\ manifest.checkpoints[Len(manifest.checkpoints)][2] \notin meta

\* C25: with a valid manifest, get_progress does not fail when features.json,
\* migration-plan.json or the last checkpoint's metadata file is missing: it
\* returns normally (each of the two artifacts being absent or well formed),
\* with features 0/0 for an absent features.json, steps 0/0 for an absent
\* plan, and for a listed checkpoint without metadata a record of the tag alone.
AbsentArtifactsTolerated ==
    report.op = "get_progress" =>
        /\ (features.kind \in {"absent", "list", "wrapped"} /\ plan.kind \in {"absent", "plan"})
               => report.raised = None
        /\ (report.raised = None /\ features = Absent)
               => report.features = [passing |-> 0, total |-> 0]
        /\ (report.raised = None /\ plan = Absent)
               => /\ report.steps.completed = 0
                  /\ report.steps.total = 0
        /\ (report.raised = None /\ MetaMissing)
               => report.last_checkpoint =
                      [tag |-> manifest.checkpoints[Len(manifest.checkpoints)],
                       step_id |-> "", timestamp |-> ""]

NothingButManifestReported ==
    /\ report.op = "get_progress"
    /\ report.raised = None
    /\ features = Absent
    /\ plan = Absent
    /\ manifest.checkpoints = <<TagName("s1"), TagName("s2")>>
    /\ meta = {"s1"}
    /\ report.features = [passing |-> 0, total |-> 0]
    /\ report.steps = [current |-> 0, completed |-> 0, total |-> 0]
    /\ report.last_checkpoint = [tag |-> TagName("s2"), step_id |-> "", timestamp |-> ""]
    /\ report.checkpoints_count = 2

\* C26: whenever get_progress names a current_step, steps.current is the
\* 1-based position of that step in the plan's step list, and the step is
\* in_progress.
CurrentIsInProgressPosition ==
    (report.op = "get_progress" /\ report.raised = None /\ report.current_step # 0) =>
        /\ report.steps.current \in 1..Len(plan.items)
        /\ plan.items[report.steps.current].id = report.current_step
        /\ plan.items[report.steps.current].status = "in_progress"

\* C27: current_phase is the first phase in PHASE_ORDER whose status is
\* in_progress when there is one, the last phase when every phase is
\* completed, and "pending" when every phase is pending or has no entry.
CurrentPhaseReported ==
    (report.op = "get_progress" /\ report.raised = None) =>
        LET status(i) == manifest.phases[PHASE_ORDER[i]].status
            started == {i \in 1..Len(PHASE_ORDER) : status(i) = "in_progress"}
        IN /\ started # {} =>
                  \E i \in started :
                      /\ \A j \in started : i <= j
                      /\ report.current_phase = PHASE_ORDER[i]
           /\ (\A i \in 1..Len(PHASE_ORDER) : status(i) = "completed")
                  => report.current_phase = PHASE_ORDER[Len(PHASE_ORDER)]
           /\ (\A i \in 1..Len(PHASE_ORDER) : status(i) \in {"pending", "missing"})
                  => report.current_phase = "pending"

InProgressBeforeCompletedReported ==
    /\ report.op = "get_progress"
    /\ report.raised = None
    /\ manifest.phases["understand"].status = "completed"
    /\ manifest.phases["guardrail"].status = "in_progress"
    /\ manifest.phases["migrate"].status = "in_progress"
    /\ manifest.phases["verify"].status = "completed"
    /\ report.current_phase = "guardrail"
    /\ report.completed_phases = <<"understand">>

\* the document load_artifact read
Loaded ==
    CASE report.artifact = "features" -> features
      [] report.artifact = "plan" -> plan
      [] report.artifact = "seams" -> seams

\* C30: load_features, load_seams and load_plan raise the not-found error for
\* a missing file, raise another error for a file that is no JSON or not of
\* the expected shape, and return an empty collection only for a well-formed
\* empty one.
ArtifactOutcomesDistinct ==
    report.op = "load_artifact" =>
        /\ report.raised = "FileNotFoundError" <=> Loaded.kind = "absent"
        /\ Loaded.kind \in {"badjson", "scalar", "nonobject", "steps_scalar",
                            "nondict_item", "missing_id", "nokey", "nosteps"}
               => report.raised \notin {None, "FileNotFoundError"}
        /\ (report.raised = None /\ report.items = <<>>)
               => (Loaded.kind \in {"list", "wrapped", "plan"} /\ Loaded.items = <<>>)

-----------------------------------------------------------------------------
(* The phase state machine over time *)

AllCompleted(m) == m.exists /\ \A phase \in Phases : Status(m, phase) = "completed"

\* C37: once all four phases are completed, every start_phase and
\* advance_phase call that returns has raised an error, and no step changes a
\* phase's status or timestamps.
AllCompletedAbsorbing ==
    [][AllCompleted(manifest) =>
         /\ manifest'.exists
         /\ manifest'.phases = manifest.phases
         /\ \A t \in Threads :
              (th[t].op \in {"start_phase", "advance_phase"} /\ th'[t].pc = "idle")
                  => last'.raised # None
         /\ (last' # last /\ last'.op \in {"start_phase", "advance_phase"})
                  => last'.raised # None]_vars

AdvanceAfterAllCompleted ==
    /\ AllCompleted(manifest)
    /\ last.op = "advance_phase"
    /\ last.before = "completed"
    /\ last.raised = "RuntimeError"
    /\ ~last.changed

\* C38: a phase's started_at, once set, is never changed by a later call, and
\* neither is its completed_at.
TimestampsWrittenOnce ==
    [][(manifest.exists /\ manifest'.exists) =>
         \A phase \in Phases :
            /\ manifest.phases[phase].started_at # 0
                  => manifest'.phases[phase].started_at = manifest.phases[phase].started_at
            /\ manifest.phases[phase].completed_at # 0
                  => manifest'.phases[phase].completed_at = manifest.phases[phase].completed_at]_vars

\* C39: in every manifest on disk a phase is pending exactly when its
\* started_at is empty, and completed exactly when its completed_at is not.
StatusMatchesTimestamps ==
    manifest.exists =>
        \A phase \in Phases :
            /\ Status(manifest, phase) = "pending" <=> manifest.phases[phase].started_at = 0
            /\ Status(manifest, phase) = "completed" <=> manifest.phases[phase].completed_at # 0

-----------------------------------------------------------------------------
(* Saving and loading the artifacts *)

\* the items of a loaded document as typed objects: id and the known field
Known(artifact, item) ==
    CASE artifact = "features" -> [id |-> item.id, passes |-> item.passes]
      [] artifact = "plan" -> [id |-> item.id, status |-> item.status]
      [] artifact = "seams" -> [id |-> item.id, files |-> item.files]

\* every field value of the items is a JSON value
JsonNative(items) ==
    \A i \in 1..Len(items) : "files" \in DOMAIN items[i] => items[i].files.type = "list"

\* a save writes the canonical shape; a load returns the typed items of the
\* document, bare or wrapped, without unknown keys
CanonicalAndNormalized ==
    /\ (report'.op = "save_artifact" /\ report' # report) =>
           /\ report'.artifact = "features" => features'.kind = "list"
           /\ report'.artifact = "seams" => seams'.kind = "list"
           /\ report'.artifact = "plan" => plan'.kind = "plan"
    /\ (report'.op = "load_artifact" /\ report' # report) =>
           LET doc == CASE report'.artifact = "features" -> features
                        [] report'.artifact = "plan" -> plan
                        [] report'.artifact = "seams" -> seams
           IN doc.kind \in {"list", "wrapped", "plan"} =>
                  /\ report'.raised = None
                  /\ report'.items =
                         [i \in 1..Len(doc.items) |-> Known(report'.artifact, doc.items[i])]

-----------------------------------------------------------------------------
(* The checkpoint list and the frame of a rollback *)

IsPrefix(s, t) == Len(s) <= Len(t) /\ SubSeq(t, 1, Len(s)) = s

\* C32: the checkpoint list on disk only grows at its end: the list before
\* any step is a prefix of the list after it.
CheckpointsAppendOnly ==
    [][(manifest.exists /\ manifest'.exists) =>
           IsPrefix(manifest.checkpoints, manifest'.checkpoints)]_vars

\* thread t takes a step of rollback_to_checkpoint: the call, or its return
RollbackStep(t) ==
    \/ th[t].pc = "idle" /\ th'[t].pc = "resetting"
    \/ th[t].pc = "resetting" /\ th'[t].pc = "idle"
    \/ th[t].pc = "idle" /\ last' # last /\ last'.op = "rollback_to_checkpoint"

\* C40: whether it succeeds or fails, rollback_to_checkpoint leaves the
\* manifest, the checkpoint metadata files, the loki-migrate tags and the
\* commits they point to as they were.
RollbackFrame ==
    [][\A t \in Threads :
          RollbackStep(t) =>
              /\ manifest' = manifest
              /\ meta' = meta
              /\ tags' = tags
              /\ repo'.target = repo.target]_vars

RolledBackPastLaterCheckpoint ==
    /\ last.op = "rollback_to_checkpoint"
    /\ last.raised = None
    /\ manifest.checkpoints = <<TagName("s1"), TagName("s2")>>
    /\ meta = {"s1", "s2"}
    /\ tags = {"s1", "s2"}
    /\ repo.head = repo.target["s1"]
    /\ repo.target["s2"] > repo.target["s1"]

-----------------------------------------------------------------------------
(* Calling create_manifest on a migration that already has a manifest *)

NextRecreate == CreateManifest("t1", "ctor") \/ Calls({"t1"}, Phases, {"s1"})

SpecRecreate == InitReady /\ [][NextRecreate]_vars

\* C35: once a manifest exists, no call replaces it by a fresh one: the
\* checkpoint entries it lists stay listed and a phase that has been started
\* is never pending again.
ManifestCreatedOnce ==
    [][manifest.exists =>
          /\ manifest'.exists
          /\ IsPrefix(manifest.checkpoints, manifest'.checkpoints)
          /\ \A phase \in Phases :
                 Status(manifest, phase) # "pending"
                     => Status(manifest', phase) # "pending"]_vars

-----------------------------------------------------------------------------
(* The operations that only read *)

\* one check_phase_gate or one get_progress per run, over every state of the
\* artifacts
NextReadOnly ==
    \/ report = NoReport /\ NextGate
    \/ probe = NoProbe /\ report = NoReport /\ GetProgress

SpecReadOnly == InitGate /\ [][NextReadOnly]_vars

\* C34: a step of check_phase_gate (allowing, blocking or raising) or of
\* get_progress leaves the manifest, the three artifacts, docs/, the
\* checkpoint metadata, the tags and the repository as they were.
ReadOnlyFrame ==
    [][(probe' # probe \/ report' # report) =>
           /\ manifest' = manifest
           /\ features' = features
           /\ plan' = plan
           /\ seams' = seams
           /\ docs' = docs
           /\ meta' = meta
           /\ tags' = tags
           /\ repo' = repo]_vars

InspectedUnreadableArtifacts ==
    /\ probe.from_phase = "guardrail"
    /\ probe.standalone.raised = None
    /\ ~probe.standalone.allowed
    /\ features = Doc("badjson", <<>>)
    /\ plan = Absent
    /\ seams = Doc("badjson", <<>>)

-----------------------------------------------------------------------------
(* advance_phase against the artifact writers of the same pipeline *)

\* one thread making the manifest calls while another saves artifacts
NextSavers ==
    \/ ~manifest.exists /\ CreateManifest("t1", "ctor")
    \/ Calls({"t1"}, Phases, {"s1"})
    \/ CheckpointCompensate("t1")
    \/ Writers({"t2"})

SpecSavers == Init /\ [][NextSavers]_vars

\* C33: from the gate verdict of advance_phase to its manifest write no
\* save_features, save_plan or save_seams of the same pipeline takes effect,
\* and when advance_phase writes the manifest the artifacts on disk satisfy
\* the gate of the phase it completes.
AdvanceCriticalSection ==
    [][\A t \in Threads :
          (th[t].op = "advance_phase" /\ th[t].pc \in {"gated", "loaded"}) =>
              /\ features' = features
              /\ plan' = plan
              /\ seams' = seams
              /\ (th'[t].pc = "idle" /\ manifest' # manifest) =>
                     /\ AdvanceGate(th[t].arg).raised = None
                     /\ AdvanceGate(th[t].arg).allowed]_vars

AdvancedWhileSaverWaited ==
    /\ last.op = "advance_phase"
    /\ last.wrote
    /\ Status(manifest, "guardrail") = "completed"
    /\ Status(manifest, "migrate") = "in_progress"
    /\ features = Doc("list", Serialized(<<Feature(1, FALSE)>>))

-----------------------------------------------------------------------------
(* Progress of a finite set of concurrent calls on one pipeline object *)

\* the calls a thread has invoked
PendingCalls ==
    {Called(op, phase, "ctor") : op \in {"start_phase", "advance_phase"}, phase \in Phases}
    \cup {Called("create_checkpoint", step_id, "ctor") : step_id \in StepIds}
    \cup {Called(op, None, "ctor") : op \in {"save_features", "save_plan"}}

\* every thread has invoked one call, none has taken a step
InitFair ==
    /\ manifest = InitialManifest(1)
    /\ docs = "nonempty"
    /\ seams = Doc("list", <<>>)
    /\ features = Doc("list", <<Feature(1, TRUE)>>)
    /\ plan = Doc("plan", <<MigrationStep(1, "completed")>>)
    /\ tags = {}
    /\ meta = {}
    /\ objs = {"ctor"}
    /\ lock = [o \in Objects |-> NoThread]
    /\ th \in [Threads -> PendingCalls]
    /\ clock = 1
    /\ last = NoCall
    /\ done = {}
    /\ probe = NoProbe
    /\ repo = NoRepo
    /\ broken = {}
    /\ aw = NoWrite
    /\ root = NoEntries
    /\ report = NoReport

\* the steps of the call thread t has invoked
ThreadStep(t) ==
    \/ \E phase \in Phases : th[t].pc = "called" /\ StartPhaseBegin(t, "ctor", phase)
    \/ StartPhaseCommit(t)
    \/ \E phase \in Phases : th[t].pc = "called" /\ AdvanceBegin(t, "ctor", phase)
    \/ AdvanceLoad(t)
    \/ AdvanceCommit(t)
    \/ \E step_id \in StepIds : th[t].pc = "called" /\ CheckpointTag(t, "ctor", step_id)
    \/ CheckpointLoad(t)
    \/ CheckpointSave(t)
    \/ CheckpointMeta(t)
    \/ \E items \in SavedFeatures : th[t].pc = "called" /\ SaveFeatures(t, "ctor", items)
    \/ \E items \in SavedPlans : th[t].pc = "called" /\ SavePlan(t, "ctor", items)

\* one get_progress() by a caller outside the two threads
ProgressCall == report = NoReport /\ GetProgress

NextFair == (\E t \in Threads : ThreadStep(t)) \/ ProgressCall

\* a thread that can take a step is not held back for ever
SpecFair ==
    /\ InitFair
    /\ [][NextFair]_vars
    /\ \A t \in Threads : WF_vars(ThreadStep(t))
    /\ WF_vars(ProgressCall)

\* the lock is held only by a thread between its `with self._lock:` and the
\* end of that block, and no thread about to enter a block holds it
LockDiscipline ==
    /\ \A o \in Objects :
           lock[o] # NoThread =>
               /\ th[lock[o]].pc \in {"gated", "loaded"}
               /\ th[lock[o]].obj = o
    /\ \A t \in Threads :
           th[t].pc \in {"called", "tagged", "saved", "idle"} =>
               \A o \in Objects : lock[o] # t

\* C36: no call acquires the lock while holding it, the lock is released on
\* every exit, and under fair scheduling every one of a finite set of
\* concurrent calls on one pipeline returns or raises.
EveryCallReturns ==
    /\ []LockDiscipline
    /\ \A t \in Threads : (th[t].pc # "idle") ~> (th[t].pc = "idle")
    /\ <>(report.op = "get_progress")
    /\ <>[](\A o \in Objects : lock[o] = NoThread)

WaitingForTheLock ==
    /\ th["t1"].pc = "tagged"
    /\ th["t2"].pc = "gated"
    /\ lock["ctor"] = "t2"
====
